---- MODULE Spec2Model ----
(***************************************************************************)
(* SupLab: set analysis (sup / inf / max / min / diameter) of a union of   *)
(* components.  The repository holds four analysis engines:                *)
(*   - the universe-aware calculateAnalysis   (src/utils/mathUtils.ts)     *)
(*   - the metric-space calculateAnalysis     (src/utils/mathUtils.ts)     *)
(*   - the backend analyzeSet                 (analyze.service.ts)         *)
(*   - the frontend calculateBounds           (frontend/lib/calculations)  *)
(* On the formulas of its catalogue each is a pure function; a step of the *)
(* model is one call of one engine on an input drawn from a bounded pool.  *)
(*                                                                         *)
(* Numbers.  A JavaScript number is modelled in fixed point as a record    *)
(* [k |-> "num", c, f] standing for c/1000 + f/10^12 with 0 <= f < 10^9,   *)
(* so one tick of f is 1e-12 and the tolerances of the code (1e-10, 1e-9,  *)
(* 1e-7, 1e-6) are 100, 1000, 10^5 and 10^6 ticks.  +Infinity/-Infinity    *)
(* are the numbers with c = +/-InfC.  null is [k |-> "null"], and the      *)
(* string sentinels 'infinity' / '-infinity' are [k |-> "str", s |-> ..].  *)
(***************************************************************************)
EXTENDS Integers, Sequences, FiniteSets, TLC

\* globalThis: the properties that evaluated formulas have written to the
\* global object of the JavaScript realm the engines run in
VARIABLES pc, fn, args, result, globalThis

vars == <<pc, fn, args, result, globalThis>>

-----------------------------------------------------------------------------
(* Fixed-point numbers *)

CoarsePerUnit == 10^3

FinePerCoarse == 10^9

InfC == 10^9

Null == [k |-> "null"]

Str(s) == [k |-> "str", s |-> s]

Undefined == [k |-> "undefined"]

Bool(b) == [k |-> "bool", v |-> b]

\* the global object before any formula has written to it
NoGlobals == [k |-> Undefined]

Num(c, f) == [k |-> "num", c |-> c, f |-> f]

Infinity == Num(InfC, 0)

NegInfinity == Num(-InfC, 0)

\* the integer i as a number
IntNum(i) == Num(i * CoarsePerUnit, 0)

\* i thousandths
Milli(i) == Num(i, 0)

\* t ticks of 1e-12 (0 <= t < 10^9)
Ticks(t) == Num(0, t)

IsNum(x) == x.k = "num"

isFinite(x) == IsNum(x) /\ x.c > -InfC /\ x.c < InfC

Lt(a, b) == a.c < b.c \/ (a.c = b.c /\ a.f < b.f)

Gt(a, b) == Lt(b, a)

Le(a, b) == ~Lt(b, a)

Ge(a, b) == ~Lt(a, b)

Neg(a) ==
  IF ~isFinite(a) THEN Num(-a.c, 0)
  ELSE IF a.f = 0 THEN Num(-a.c, 0) ELSE Num(-a.c - 1, FinePerCoarse - a.f)

\* a - b for finite a, b
Sub(a, b) ==
  IF a.f >= b.f THEN Num(a.c - b.c, a.f - b.f)
  ELSE Num(a.c - b.c - 1, a.f - b.f + FinePerCoarse)

\* a + b for finite a, b
Add(a, b) ==
  IF a.f + b.f < FinePerCoarse THEN Num(a.c + b.c, a.f + b.f)
  ELSE Num(a.c + b.c + 1, a.f + b.f - FinePerCoarse)

Abs(a) == IF a.c < 0 THEN Neg(a) ELSE a

\* Math.abs(a - b) < tol; Infinity - Infinity is NaN and NaN < tol is false
AbsDiffLt(a, b, tol) ==
  IF isFinite(a) /\ isFinite(b) THEN Lt(Abs(Sub(a, b)), tol) ELSE FALSE

\* p / q for integers 0 <= p <= 10^5, 1 <= q <= 10^6, truncated to 1e-12
Ratio(p, q) ==
  LET a  == p * CoarsePerUnit
      r0 == a % q
      d1 == (r0 * 1000) \div q
      r1 == (r0 * 1000) % q
      d2 == (r1 * 1000) \div q
      r2 == (r1 * 1000) % q
      d3 == (r2 * 1000) \div q
  IN Num(a \div q, d1 * 1000000 + d2 * 1000 + d3)

MaxNum(a, b) == IF Lt(a, b) THEN b ELSE a

MinNum(a, b) == IF Lt(b, a) THEN b ELSE a

Range(xs) == {xs[i] : i \in DOMAIN xs}

\* Math.max(...xs); Math.max() of nothing is -Infinity
MathMax(xs) ==
  IF xs = <<>> THEN NegInfinity
  ELSE CHOOSE x \in Range(xs) : \A y \in Range(xs) : Le(y, x)

\* Math.min(...xs); Math.min() of nothing is +Infinity
MathMin(xs) ==
  IF xs = <<>> THEN Infinity
  ELSE CHOOSE x \in Range(xs) : \A y \in Range(xs) : Le(x, y)

\* sequence helpers
\* x / 20 and x * i (0 <= i <= 20) on fixed-point numbers
Div20(x) == Num(x.c \div 20, (x.c % 20) * 50000000 + x.f \div 20)

MulSmall(x, i) ==
  LET lo == (x.f % 100000) * i
      hi == (x.f \div 100000) * i + lo \div 100000
  IN Num(x.c * i + hi \div 10000, (hi % 10000) * 100000 + (lo % 100000))

RECURSIVE FlatMap(_, _)
FlatMap(F(_), xs) ==
  IF xs = <<>> THEN <<>> ELSE F(Head(xs)) \o FlatMap(F, Tail(xs))

\* all lists over S of length 0..n
RECURSIVE ListsUpTo(_, _)
ListsUpTo(S, n) ==
  IF n = 0 THEN {<<>>}
  ELSE LET shorter == ListsUpTo(S, n - 1)
       IN shorter \cup {Append(l, x) : l \in {m \in shorter : Len(m) = n - 1}, x \in S}

-----------------------------------------------------------------------------
(* Values used to build inputs *)

Zero == IntNum(0)

One == IntNum(1)

Two == IntNum(2)

MinusOne == IntNum(-1)

Half == Milli(500)

\* 1 - 5e-10: closer than 1e-9 to 1 but further than 1e-10
OneMinus == Num(999, 999999500)

\* 1 - 5e-11: closer than 1e-10 to 1
OneMinusTiny == Num(999, 999999950)

SQRT2 == Num(1414, 213562373)

PI == Num(3141, 592653590)

E == Num(2718, 281828459)

SQRT3 == Num(1732, 50807569)

SQRT5 == Num(2236, 67977500)

\* sqrt(2) + 5e-8: closer than 1e-7 to sqrt(2)
Sqrt2Plus == Num(1414, 213612373)

\* sqrt(2) + 2e-7: further than 1e-7 from sqrt(2)
Sqrt2Far == Num(1414, 213762373)

-----------------------------------------------------------------------------
(* Universe-aware engine: src/utils/mathUtils.ts, lines 372-622 *)

\* The user formulas of the model.  safeEvaluate runs the text through the
\* JavaScript evaluator; the model gives each formula of this catalogue the
\* value the evaluator returns for it.
Formulas ==
  {"n", "-n", "1/n", "1-1/n", "n/10000", "-n/10000", "n/1000000", "1/(n-1)", "foo("}

\* safeEvaluate(formula, n): the number the formula yields, or null when the
\* text does not compile or the result is NaN or not finite
safeEvaluate(formula, n) ==
  CASE formula = "n"         -> IntNum(n)
    [] formula = "-n"        -> IntNum(-n)
    [] formula = "1/n"       -> Ratio(1, n)
    [] formula = "1-1/n"     -> Sub(One, Ratio(1, n))
    [] formula = "n/10000"   -> Ratio(n, 10000)
    [] formula = "-n/10000"  -> Neg(Ratio(n, 10000))
    [] formula = "n/1000000" -> Ratio(n, 1000000)
    [] formula = "1/(n-1)"   -> IF n = 1 THEN Null ELSE Ratio(1, n - 1)
    [] OTHER                 -> Null

\* getSequencePoints(type, count, customFormula), lines 405-422: the points
\* the universe-aware application draws for a sequence (0.5^n for n <= 19)
getSequencePoints(type, count, customFormula) ==
  IF type = "custom" /\ customFormula # ""
  THEN SelectSeq([n \in 1..count |-> safeEvaluate(customFormula, n)], LAMBDA v : v # Null)
  ELSE CASE type = "1/n" \/ type = "harmonic" -> [n \in 1..count |-> Ratio(1, n)]
         [] type = "alternating" -> [n \in 1..count |-> IF n % 2 = 0 THEN One ELSE MinusOne]
         [] type = "geometric" -> [n \in 1..count |-> Ratio(1, 2^n)]
         [] OTHER -> <<>>

SmallSampleN == 100

TailIndex1 == 1000

TailIndex2 == 10000

TailIndex3 == 100000

\* largeThreshold = 10000
largeThreshold == IntNum(10000)

\* the "non-trivial" final increment, 0.1
slowDivergenceStep == Milli(100)

\* fault injection for the divergence detector: only the magnitude test,
\* without the test for slow monotonic divergence
analyzeSample_thresholdOnly(smallSample, t1, t2, t3) ==
  LET localMax0 == IF Len(smallSample) > 0 THEN MathMax(smallSample) ELSE NegInfinity
      localMin0 == IF Len(smallSample) > 0 THEN MathMin(smallSample) ELSE Infinity
      terms == SelectSeq(<<t1, t2, t3>>, LAMBDA t : t # Null)
  IN [isUnboundedAbove |-> \E i \in DOMAIN terms : Gt(terms[i], largeThreshold),
      isUnboundedBelow |-> \E i \in DOMAIN terms : Lt(terms[i], Neg(largeThreshold)),
      approxMax |-> MathMax(<<localMax0>> \o terms),
      approxMin |-> MathMin(<<localMin0>> \o terms)]

\* lines 433-486, from the sample of lines 427-431 and the three tail terms
analyzeSample(smallSample, t1, t2, t3) ==
  LET localMax0 == IF Len(smallSample) > 0 THEN MathMax(smallSample) ELSE NegInfinity
      localMin0 == IF Len(smallSample) > 0 THEN MathMin(smallSample) ELSE Infinity
      terms == SelectSeq(<<t1, t2, t3>>, LAMBDA t : t # Null)
      largeAbove == \E i \in DOMAIN terms : Gt(terms[i], largeThreshold)
      largeBelow == \E i \in DOMAIN terms : Lt(terms[i], Neg(largeThreshold))
      allThree == t1 # Null /\ t2 # Null /\ t3 # Null
      slowAbove == allThree /\ Gt(t3, t2) /\ Gt(t2, t1)
                   /\ Gt(Sub(t3, t2), slowDivergenceStep)
      slowBelow == allThree /\ Lt(t3, t2) /\ Lt(t2, t1)
                   /\ Gt(Sub(t2, t3), slowDivergenceStep)
  IN [isUnboundedAbove |-> largeAbove \/ slowAbove,
      isUnboundedBelow |-> largeBelow \/ slowBelow,
      approxMax |-> MathMax(<<localMax0>> \o terms),
      approxMin |-> MathMin(<<localMin0>> \o terms)]

analyzeSequence(formula) ==
  analyzeSample(SelectSeq([i \in 1..SmallSampleN |-> safeEvaluate(formula, i)],
                          LAMBDA v : v # Null),
                safeEvaluate(formula, TailIndex1),
                safeEvaluate(formula, TailIndex2),
                safeEvaluate(formula, TailIndex3))

\* analyzeSequence is a pure function of the formula text: its value for each
\* formula of the catalogue, computed once
analyzeSequenceOf == [formula \in Formulas |-> analyzeSequence(formula)]

\* 1e-7
IrrationalTol == Ticks(100000)

irrationals == <<SQRT2, PI, E, SQRT3, SQRT5>>

isIrrationalApprox(val) ==
  \E i \in DOMAIN irrationals : AbsDiffLt(val, irrationals[i], IrrationalTol)

\* 1e-9
AttainTol == Ticks(1000)

EmptyAnalysis ==
  [sup |-> Null, inf |-> Null, max |-> Null, min |-> Null,
   boundedAbove |-> TRUE, boundedBelow |-> TRUE, isEmpty |-> TRUE,
   completenessGap |-> FALSE, theoreticalSup |-> Null]

NoContribution ==
  [notEmpty |-> FALSE, unboundedAbove |-> FALSE, unboundedBelow |-> FALSE,
   sups |-> <<>>, infs |-> <<>>]

Bound(val, isInSet) == [val |-> val, isInSet |-> isInSet]

\* one pass of the loop over components (lines 519-567): what the component
\* adds to anyNotEmpty, isUnboundedAbove/Below, componentSups, componentInfs
intervalContribution(iv) ==
  IF Gt(iv.start, iv.end) THEN NoContribution
  ELSE [notEmpty |-> TRUE,
        unboundedAbove |-> iv.end = Infinity,
        unboundedBelow |-> iv.start = NegInfinity,
        sups |-> IF iv.end = Infinity THEN <<>> ELSE <<Bound(iv.end, ~iv.rightOpen)>>,
        infs |-> IF iv.start = NegInfinity THEN <<>> ELSE <<Bound(iv.start, ~iv.leftOpen)>>]

finiteContribution(fin) ==
  IF Len(fin.points) = 0 THEN NoContribution
  ELSE [notEmpty |-> TRUE, unboundedAbove |-> FALSE, unboundedBelow |-> FALSE,
        sups |-> <<Bound(MathMax(fin.points), TRUE)>>,
        infs |-> <<Bound(MathMin(fin.points), TRUE)>>]

\* fault injection for the bounds table: the infimum 0 of '1/n' marked attained
presetBounds_infAttained(type) ==
  CASE type = "1/n"         -> [sups |-> <<Bound(One, TRUE)>>, infs |-> <<Bound(Zero, TRUE)>>]
    [] type = "alternating" -> [sups |-> <<Bound(One, TRUE)>>, infs |-> <<Bound(MinusOne, TRUE)>>]
    [] type = "geometric"   -> [sups |-> <<Bound(Half, TRUE)>>, infs |-> <<Bound(Zero, FALSE)>>]
    [] OTHER                -> [sups |-> <<>>, infs |-> <<>>]

presetBounds(type) ==
  CASE type = "1/n"         -> [sups |-> <<Bound(One, TRUE)>>, infs |-> <<Bound(Zero, FALSE)>>]
    [] type = "alternating" -> [sups |-> <<Bound(One, TRUE)>>, infs |-> <<Bound(MinusOne, TRUE)>>]
    [] type = "geometric"   -> [sups |-> <<Bound(Half, TRUE)>>, infs |-> <<Bound(Zero, FALSE)>>]
    [] OTHER                -> [sups |-> <<>>, infs |-> <<>>]

\* lines 547-551, for the analysis of line 545
customContribution(analysis) ==
  [notEmpty |-> TRUE,
   unboundedAbove |-> analysis.isUnboundedAbove,
   unboundedBelow |-> analysis.isUnboundedBelow,
   sups |-> IF analysis.isUnboundedAbove THEN <<>>
            ELSE <<Bound(analysis.approxMax, TRUE)>>,
   infs |-> IF analysis.isUnboundedBelow THEN <<>>
            ELSE <<Bound(analysis.approxMin, TRUE)>>]

\* lines 555-564, for the table entry of the sequence type
presetContribution(bounds) ==
  [notEmpty |-> TRUE, unboundedAbove |-> FALSE, unboundedBelow |-> FALSE,
   sups |-> bounds.sups, infs |-> bounds.infs]

sequenceContribution(sq) ==
  IF sq.type = "custom" /\ sq.customFormula # ""
  THEN customContribution(analyzeSequenceOf[sq.customFormula])
  ELSE presetContribution(presetBounds(sq.type))

componentContribution(comp) ==
  CASE comp.type = "interval" /\ comp.interval # Null -> intervalContribution(comp.interval)
    [] comp.type = "finite" /\ comp.finite # Null     -> finiteContribution(comp.finite)
    [] comp.type = "sequence" /\ comp.sequence # Null -> sequenceContribution(comp.sequence)
    [] OTHER -> NoContribution

\* fault injection for the union law: the supremum taken from the first
\* component instead of the largest
numericSupOf_firstValue(supValues) == IF Len(supValues) > 0 THEN supValues[1] ELSE Null

\* lines 580-581
numericSupOf(supValues) == IF Len(supValues) > 0 THEN MathMax(supValues) ELSE Null

numericInfOf(infValues) == IF Len(infValues) > 0 THEN MathMin(infValues) ELSE Null

\* fault injection for the dominance of an unbounded component: a bounded
\* component's value hides the unboundedness
theoreticalSupOf_numericFirst(isUnboundedAbove, numericSup) ==
  IF numericSup # Null THEN numericSup
  ELSE IF isUnboundedAbove THEN Str("infinity") ELSE numericSup

\* lines 584-585
theoreticalSupOf(isUnboundedAbove, numericSup) ==
  IF isUnboundedAbove THEN Str("infinity") ELSE numericSup

theoreticalInfOf(isUnboundedBelow, numericInf) ==
  IF isUnboundedBelow THEN Str("-infinity") ELSE numericInf

\* fault injection for the gap rule: the universe is not consulted
completenessGapOf_anyUniverse(universe, theoreticalSup) ==
  IsNum(theoreticalSup) /\ isIrrationalApprox(theoreticalSup)

\* lines 588-597
completenessGapOf(universe, theoreticalSup) ==
  universe = "Q" /\ IsNum(theoreticalSup) /\ isIrrationalApprox(theoreticalSup)

\* fault injection for the attainment rule: isInSet is not consulted
isMaxOf_ignoringIsInSet(completenessGap, actualSup, componentSups) ==
  /\ ~completenessGap
  /\ IsNum(actualSup)
  /\ \E i \in DOMAIN componentSups :
        AbsDiffLt(componentSups[i].val, actualSup, AttainTol)

\* lines 600-603
isMaxOf(completenessGap, actualSup, componentSups) ==
  /\ ~completenessGap
  /\ IsNum(actualSup)
  /\ \E i \in DOMAIN componentSups :
        AbsDiffLt(componentSups[i].val, actualSup, AttainTol) /\ componentSups[i].isInSet

\* lines 605-609
isMinOf(theoreticalInf, componentInfs) ==
  /\ IsNum(theoreticalInf)
  /\ \E i \in DOMAIN componentInfs :
        AbsDiffLt(componentInfs[i].val, theoreticalInf, AttainTol) /\ componentInfs[i].isInSet

\* lines 577-622, for the flags and bounds the loop has collected
analysisOfBounds(isUnboundedAbove, isUnboundedBelow, componentSups, componentInfs, universe) ==
  LET supValues == [i \in DOMAIN componentSups |-> componentSups[i].val]
      infValues == [i \in DOMAIN componentInfs |-> componentInfs[i].val]
      numericSup == numericSupOf(supValues)
      numericInf == numericInfOf(infValues)
      theoreticalSup == theoreticalSupOf(isUnboundedAbove, numericSup)
      theoreticalInf == theoreticalInfOf(isUnboundedBelow, numericInf)
      completenessGap == completenessGapOf(universe, theoreticalSup)
      actualSup == IF completenessGap THEN Null ELSE theoreticalSup
      isMax == isMaxOf(completenessGap, actualSup, componentSups)
      isMin == isMinOf(theoreticalInf, componentInfs)
  IN [sup |-> actualSup,
      inf |-> theoreticalInf,
      max |-> IF isMax /\ IsNum(actualSup) THEN actualSup ELSE Null,
      min |-> IF isMin /\ IsNum(theoreticalInf) THEN theoreticalInf ELSE Null,
      boundedAbove |-> ~isUnboundedAbove,
      boundedBelow |-> ~isUnboundedBelow,
      isEmpty |-> FALSE,
      completenessGap |-> completenessGap,
      theoreticalSup |-> theoreticalSup]

\* lines 512-575, for what each pass of the loop has contributed
analysisOfContributions(contrib, universe) ==
  IF ~\E i \in DOMAIN contrib : contrib[i].notEmpty THEN EmptyAnalysis
  ELSE analysisOfBounds(\E i \in DOMAIN contrib : contrib[i].unboundedAbove,
                        \E i \in DOMAIN contrib : contrib[i].unboundedBelow,
                        FlatMap(LAMBDA c : c.sups, contrib),
                        FlatMap(LAMBDA c : c.infs, contrib),
                        universe)

calculateAnalysis(components, universe) ==
  IF Len(components) = 0 THEN EmptyAnalysis
  ELSE analysisOfContributions(
         [i \in DOMAIN components |-> componentContribution(components[i])], universe)

\* A formula outside the catalogue.  safeEvaluate hands the text to
\* new Function (line 395) without an allow-list, and the function body runs
\* against the global object: this text counts its own evaluations there.
CountingFormula == "globalThis.k = (globalThis.k || 0) + 1"

\* (globalThis.k || 0) + 1
nextCount(globals) == Add(IF globals.k = Undefined THEN Zero ELSE globals.k, One)

\* safeEvaluate(formula, n) (lines 376-403) run when the global object is
\* globals: the value returned and the global object afterwards
safeEvaluateWith(formula, n, globals) ==
  IF formula = CountingFormula
  THEN [value |-> nextCount(globals), globals |-> [globals EXCEPT !.k = nextCount(globals)]]
  ELSE [value |-> safeEvaluate(formula, n), globals |-> globals]

Evaluated(values, globals) == [values |-> values, globals |-> globals]

afterEvaluation(run, evaluation) ==
  Evaluated(Append(run.values, evaluation.value), evaluation.globals)

\* the calls of safeEvaluate that analyzeSequence makes, in order (lines
\* 428-430 and 438-440): the values collected and the global object left
RECURSIVE evaluateInOrder(_, _, _)
evaluateInOrder(formula, indices, run) ==
  IF Len(run.values) = Len(indices) THEN run
  ELSE evaluateInOrder(
         formula, indices,
         CHOOSE next \in {afterEvaluation(run, e) :
                            e \in {safeEvaluateWith(formula, indices[Len(run.values) + 1],
                                                    run.globals)}} : TRUE)

sampleIndices == [i \in 1..SmallSampleN |-> i] \o <<TailIndex1, TailIndex2, TailIndex3>>

\* lines 425-487 from the values of the calls of safeEvaluate
analyzeEvaluated(run) ==
  [analysis |-> analyzeSample(SelectSeq(SubSeq(run.values, 1, SmallSampleN),
                                        LAMBDA v : v # Null),
                              run.values[SmallSampleN + 1], run.values[SmallSampleN + 2],
                              run.values[SmallSampleN + 3]),
   globals |-> run.globals]

\* analyzeSequence(formula) run when the global object is globals; a formula
\* of the catalogue leaves the global object alone
analyzeSequenceWith(formula, globals) ==
  IF formula \in Formulas THEN [analysis |-> analyzeSequenceOf[formula], globals |-> globals]
  ELSE analyzeEvaluated(evaluateInOrder(formula, sampleIndices, Evaluated(<<>>, globals)))

customContributionWith(analyzed) ==
  [contribution |-> customContribution(analyzed.analysis), globals |-> analyzed.globals]

\* one pass of the loop over components (lines 519-567) run when the global
\* object is globals: only a custom sequence evaluates a formula
componentContributionWith(comp, globals) ==
  IF comp.type = "sequence" /\ comp.sequence # Null
     /\ comp.sequence.type = "custom" /\ comp.sequence.customFormula # ""
  THEN customContributionWith(analyzeSequenceWith(comp.sequence.customFormula, globals))
  ELSE [contribution |-> componentContribution(comp), globals |-> globals]

afterPass(passes, pass) ==
  [contrib |-> Append(passes.contrib, pass.contribution), globals |-> pass.globals]

\* the loop over components, pass by pass
RECURSIVE contributionsWith(_, _)
contributionsWith(components, passes) ==
  IF Len(passes.contrib) = Len(components) THEN passes
  ELSE contributionsWith(
         components,
         CHOOSE next \in {afterPass(passes, pass) :
                            pass \in {componentContributionWith(
                                        components[Len(passes.contrib) + 1],
                                        passes.globals)}} : TRUE)

analysisOfPasses(components, universe, passes) ==
  [analysis |-> IF Len(components) = 0 THEN EmptyAnalysis
                ELSE analysisOfContributions(passes.contrib, universe),
   globals |-> passes.globals]

\* calculateAnalysis(components, universe) (lines 502-622) run when the
\* global object is globals: the result and the global object afterwards
calculateAnalysisWith(components, universe, globals) ==
  analysisOfPasses(components, universe,
                   contributionsWith(components, [contrib |-> <<>>, globals |-> globals]))

-----------------------------------------------------------------------------
(* Diameter engine: src/utils/diameterCalculator.ts *)

\* p[i] || 0: a missing coordinate counts as 0
coordOrZero(p, i) == IF i \in DOMAIN p THEN p[i] ELSE Zero

\* fault injection for the diameter: the signed difference, without the
\* square and the root
euclideanDistance_signed(p1, p2) ==
  LET maxLen == IF Len(p1) > Len(p2) THEN Len(p1) ELSE Len(p2)
      diff == [i \in 1..maxLen |-> Sub(coordOrZero(p1, i), coordOrZero(p2, i))]
      nonZero == {i \in 1..maxLen : diff[i] # Zero}
  IN IF nonZero = {} THEN Zero
     ELSE diff[CHOOSE i \in nonZero : \A k \in nonZero : i <= k]

\* floor(sqrt(m)) for 0 <= m < 2^31, by bisection
RECURSIVE isqrtBetween(_, _, _)
isqrtBetween(m, lo, hi) ==
  IF lo = hi THEN lo
  ELSE LET mid == (lo + hi + 1) \div 2
       IN IF mid * mid <= m THEN isqrtBetween(m, mid, hi)
          ELSE isqrtBetween(m, lo, mid - 1)

isqrt(m) == isqrtBetween(m, 0, 46340)

\* sum of the squares of the entries of ms
RECURSIVE sumSquares(_)
sumSquares(ms) == IF ms = <<>> THEN 0 ELSE Head(ms) * Head(ms) + sumSquares(Tail(ms))

\* euclideanDistance(p1, p2) = sqrt(sum of squared coordinate differences),
\* lines 15-25.  With at most one non-zero difference d the value is
\* sqrt(d*d) = |d|, which is the case of every point [x] of R^1 that the
\* interval, finite and sequence components produce.  With several non-zero
\* differences (coordinates given to three decimals, each difference below
\* 32 in size) the root is cut to three decimals; for integer coordinates
\* two different sums of squares then still give two different distances in
\* the same order, and a perfect square gives its exact root.
euclideanDistance(p1, p2) ==
  LET maxLen == IF Len(p1) > Len(p2) THEN Len(p1) ELSE Len(p2)
      diff == [i \in 1..maxLen |-> Sub(coordOrZero(p1, i), coordOrZero(p2, i))]
      nonZero == {i \in 1..maxLen : diff[i] # Zero}
  IN IF Len(p1) = 1 /\ Len(p2) = 1 THEN Abs(Sub(p1[1], p2[1]))
     ELSE IF nonZero = {} THEN Zero
     ELSE IF Cardinality(nonZero) = 1
     THEN Abs(diff[CHOOSE i \in nonZero : TRUE])
     ELSE Num(isqrt(sumSquares([i \in 1..maxLen |-> diff[i].c])), 0)

DiameterInfo(value, point1, point2) ==
  [value |-> value, point1 |-> point1, point2 |-> point2]

\* { value: null } and { value: 'infinity' } carry no witness points
DiameterOnly(value) == DiameterInfo(value, Undefined, Undefined)

\* The double loop (lines 40-53, and again lines 80-95) keeps the first pair
\* (i < j, in loop order) whose distance is strictly larger than every
\* earlier one: the first pair that reaches the largest distance, or
\* (points[0], points[0]) with 0 when no distance is positive.
allPairsScan(points) ==
  LET pairs == {ij \in (1..Len(points)) \X (1..Len(points)) : ij[1] < ij[2]}
      dist == [ij \in pairs |-> euclideanDistance(points[ij[1]], points[ij[2]])]
      distances == {dist[ij] : ij \in pairs}
      largest == CHOOSE v \in distances : \A w \in distances : Le(w, v)
      reaching == {ij \in pairs : dist[ij] = largest}
      before(a, b) == a[1] < b[1] \/ (a[1] = b[1] /\ a[2] < b[2])
      best == CHOOSE a \in reaching : \A b \in reaching : b = a \/ before(a, b)
  IN IF pairs # {} /\ Gt(largest, Zero)
     THEN DiameterInfo(largest, points[best[1]], points[best[2]])
     ELSE DiameterInfo(Zero, points[1], points[1])

\* fault injection for the exact scan: only the first pair is measured
bruteForceDiameter_firstPair(points) ==
  IF Len(points) = 0 THEN DiameterOnly(Null)
  ELSE IF Len(points) = 1 THEN DiameterInfo(Zero, points[1], points[1])
  ELSE DiameterInfo(euclideanDistance(points[1], points[2]), points[1], points[2])

\* lines 31-60
bruteForceDiameter(points) ==
  IF Len(points) = 0 THEN DiameterOnly(Null)
  ELSE IF Len(points) = 1 THEN DiameterInfo(Zero, points[1], points[1])
  ELSE allPairsScan(points)

ExactLimit == 100

MaxSampleSize == 200

\* lines 72-78: every step-th point, from the first on
sampledPoints(points) ==
  LET sampleSize == IF Len(points) < MaxSampleSize THEN Len(points) ELSE MaxSampleSize
      step == Len(points) \div sampleSize
  IN [k \in 1..((Len(points) - 1) \div step + 1) |-> points[(k - 1) * step + 1]]

\* fault injection for the refinement: the pair is replaced by (point1,
\* point) whatever its distance
refineStep_unconditional(st, point) ==
  DiameterInfo(euclideanDistance(point, st.point1), st.point1, point)

\* lines 98-110, one pass of the refinement loop; both distances are taken
\* before either update
refineStep(st, point) ==
  LET dist1 == euclideanDistance(point, st.point1)
      dist2 == euclideanDistance(point, st.point2)
      st1 == IF Gt(dist1, st.value) THEN DiameterInfo(dist1, st.point1, point) ELSE st
  IN IF Gt(dist2, st1.value) THEN DiameterInfo(dist2, point, st1.point2) ELSE st1

\* the refinement loop over points[lo..hi], in order, from the state st
RECURSIVE refineFrom(_, _, _, _)
refineFrom(points, lo, hi, st) ==
  IF lo = hi THEN refineStep(st, points[lo])
  ELSE LET mid == (lo + hi) \div 2
       IN CHOOSE r \in {refineFrom(points, mid + 1, hi, s) :
                          s \in {refineFrom(points, lo, mid, st)}} : TRUE

\* lines 66-116
optimizedDiameter(points) ==
  IF Len(points) < ExactLimit THEN bruteForceDiameter(points)
  ELSE refineFrom(points, 1, Len(points), allPairsScan(sampledPoints(points)))

\* lines 125-135
findDiameterOnSurface(surfacePoints) ==
  IF Len(surfacePoints) = 0 THEN DiameterOnly(Null)
  ELSE optimizedDiameter(surfacePoints)

ParametricIterations == 50

MaxStarts == 10

StrideDivisor == 50

\* the state of one gradient ascent: the current pair and its distance
Ascent(point1, point2, dist) == [point1 |-> point1, point2 |-> point2, dist |-> dist]

\* the indices the strided scans of lines 168 and 178 visit
stridedIndices(n) ==
  LET stride == IF n \div StrideDivisor > 1 THEN n \div StrideDivisor ELSE 1
  IN {i \in 1..n : (i - 1) % stride = 0}

\* one strided scan against anchor: the scan replaces the current point by
\* each point strictly farther from anchor than the best so far, so it ends
\* on the first visited point at the largest distance, when that distance
\* exceeds current; Null when nothing improves
farthestFrom(points, anchor, current) ==
  LET idx == stridedIndices(Len(points))
      d == [i \in idx |-> euclideanDistance(points[i], anchor)]
      better == {i \in idx : Gt(d[i], current)}
      top == {i \in better : \A k \in better : Le(d[k], d[i])}
  IN IF better = {} THEN Null
     ELSE LET first == CHOOSE i \in top : \A k \in top : i <= k
          IN [point |-> points[first], dist |-> d[first]]

\* lines 170-174, for the outcome f of the scan against point2
movedPoint1(cur, f) == IF f = Null THEN cur ELSE Ascent(f.point, cur.point2, f.dist)

\* lines 180-184, for the outcome f of the scan against point1
movedPoint2(cur, f) == IF f = Null THEN cur ELSE Ascent(cur.point1, f.point, f.dist)

\* lines 167-176
improvePoint1(points, cur) == movedPoint1(cur, farthestFrom(points, cur.point2, cur.dist))

\* lines 177-186
improvePoint2(points, cur) == movedPoint2(cur, farthestFrom(points, cur.point1, cur.dist))

\* lines 164-188: up to iter rounds, stopping at the first round without
\* an improvement; next is the pair after the round that starts at cur
RECURSIVE gradientAscent(_, _, _)
afterRound(points, cur, next, iter) ==
  IF next = cur THEN cur ELSE gradientAscent(points, next, iter - 1)

gradientAscent(points, cur, iter) ==
  IF iter = 0 THEN cur
  ELSE afterRound(points, cur, improvePoint2(points, improvePoint1(points, cur)), iter)

\* lines 157-188: the ascent of the start with number start
ascentOfStart(points, start, startStep) ==
  LET idx1 == start * startStep
  IN gradientAscent(
       points,
       Ascent(points[idx1 + 1], points[((idx1 + Len(points) \div 2) % Len(points)) + 1],
              euclideanDistance(points[idx1 + 1],
                                points[((idx1 + Len(points) \div 2) % Len(points)) + 1])),
       ParametricIterations)

\* fault injection for the multi-start search: the last start is kept
\* instead of the best
bestStart_lastStart(points, run) ==
  IF DOMAIN run # {}
  THEN DiameterInfo(run[Cardinality(DOMAIN run) - 1].dist,
                    run[Cardinality(DOMAIN run) - 1].point1,
                    run[Cardinality(DOMAIN run) - 1].point2)
  ELSE DiameterInfo(Zero, points[1], points[1])

\* lines 190-201: the first start whose distance is the largest,
\* when that is positive; run[k] is the ascent of start k
bestStart(points, run) ==
  LET dists == {run[k].dist : k \in DOMAIN run}
      largest == CHOOSE v \in dists : \A w \in dists : Le(w, v)
      first == CHOOSE k \in DOMAIN run :
                 run[k].dist = largest /\ \A j \in DOMAIN run : run[j].dist = largest => k <= j
  IN IF DOMAIN run # {} /\ Gt(largest, Zero)
     THEN DiameterInfo(largest, run[first].point1, run[first].point2)
     ELSE DiameterInfo(Zero, points[1], points[1])

\* line 154
numStartsOf(n) == IF n \div 10 < MaxStarts THEN n \div 10 ELSE MaxStarts

\* lines 141-202.  Below 10 points numStarts is 0 and no start is tried.
findDiameterParametric(points) ==
  IF Len(points) < 2
  THEN IF Len(points) = 0 THEN DiameterInfo(Zero, Undefined, Undefined)
       ELSE DiameterInfo(Zero, points[1], points[1])
  ELSE bestStart(points,
                 [start \in 0..(numStartsOf(Len(points)) - 1) |->
                    ascentOfStart(points, start,
                                  Len(points) \div numStartsOf(Len(points)))])

ManifoldLimit == 50

\* DiameterCalculator.calculate, lines 214-230
DiameterCalculator_calculate(points, isManifold) ==
  IF Len(points) = 0 THEN DiameterOnly(Null)
  ELSE IF Len(points) = 1 THEN DiameterInfo(Zero, points[1], points[1])
  ELSE IF isManifold /\ Len(points) > ManifoldLimit THEN findDiameterParametric(points)
  ELSE optimizedDiameter(points)

\* DiameterCalculator.combineSetsDiameter, lines 251-263
combineSetsDiameter(pointGroups) ==
  LET allPoints == FlatMap(LAMBDA group : group, pointGroups)
  IN IF Len(allPoints) = 0 THEN DiameterOnly(Null)
     ELSE DiameterCalculator_calculate(allPoints, FALSE)

-----------------------------------------------------------------------------
(* Metric-space engine: src/utils/mathUtils.ts, lines 1-370 *)

\* safeEvaluate of the metric-space engine (mathjs, lines 38-65) at n
safeEvaluateMathjs(formula, n) ==
  CASE formula = "n"       -> IntNum(n)
    [] formula = "1/n"     -> Ratio(1, n)
    [] formula = "1-1/n"   -> Sub(One, Ratio(1, n))
    [] formula = "1/(n-1)" -> IF n = 1 THEN Null ELSE Ratio(1, n - 1)
    [] OTHER               -> Null

\* 0.5^n for 1 <= n <= 19
PowHalf(n) == Ratio(1, 2^n)

\* getSequencePoints(type, count, customFormula), lines 108-121
getSequencePointsMetric(type, count, customFormula) ==
  LET term(n) ==
        IF type = "custom" /\ customFormula # ""
        THEN safeEvaluateMathjs(customFormula, n)
        ELSE CASE type = "1/n" \/ type = "harmonic" -> Ratio(1, n)
               [] type = "alternating" ->
                    IF n % 2 = 0 THEN Ratio(1, n) ELSE Neg(Ratio(1, n))
               [] type = "geometric" -> PowHalf(n)
               [] OTHER -> Null
  IN SelectSeq([n \in 1..count |-> term(n)], LAMBDA v : v # Null)

CauchyMinTerms == 5

\* 0.05
CauchyTol == Milli(50)

\* 1e-6
MembershipTol == Ticks(1000000)

\* lines 283-294, for the points pts of the sequence
sequencePointsContribution(pts) ==
  LET long == Len(pts) > CauchyMinTerms
      last == pts[Len(pts)]
      prev == pts[Len(pts) - 1]
  IN [unboundedBelow |-> FALSE, unboundedAbove |-> FALSE,
      lows |-> <<>>, highs |-> <<>>, infinite |-> TRUE,
      scalar |-> pts,
      ndPoints |-> [i \in DOMAIN pts |-> <<pts[i]>>],
      limits |-> IF long THEN <<last>> ELSE <<>>,
      notCauchy |-> long /\ Gt(euclideanDistance(<<last>>, <<prev>>), CauchyTol)]

\* x * x for a number given to three decimals, below 46 in size
Square(x) == Num((x.c * x.c) \div CoarsePerUnit, ((x.c * x.c) % CoarsePerUnit) * 1000000)

\* x / n for 1 <= n <= 3
DivSmall(x, n) == Num(x.c \div n, ((x.c % n) * FinePerCoarse + x.f) \div n)

\* safeEvaluate(formula, { name: v }), lines 38-65 (mathjs), for the
\* formulas of one variable that the function components of this model
\* carry; a formula over another variable, or one that does not parse,
\* throws inside and gives null
safeEvaluateIn(formula, name, v) ==
  CASE formula = "2" -> Two
    [] formula = name -> v
    [] formula = "-" \o name -> Neg(v)
    [] formula = name \o "^2" -> Square(v)
    [] OTHER -> Null

\* lines 91-106
normalizeFunctionDomain(domain) ==
  LET start0 == IF isFinite(domain[1]) THEN domain[1] ELSE IntNum(-10)
      end0 == IF isFinite(domain[2]) THEN domain[2] ELSE IntNum(10)
      start == MinNum(start0, end0)
      end == MaxNum(start0, end0)
      delta == MaxNum(One, MaxNum(Div20(Abs(start)), Half))
  IN IF start = end THEN <<Sub(start, delta), Add(end, delta)>> ELSE <<start, end>>

\* the values the loops "for (v = start; v <= end; v += step)" visit, for
\* steps that are exact in binary (whole numbers and halves), where the
\* repeated addition carries no rounding
loopValues(start, end, sampleCount) ==
  SelectSeq([k \in 1..(sampleCount + 1) |->
               Add(start, MulSmall(DivSmall(Sub(end, start), sampleCount), k - 1))],
            LAMBDA v : Le(v, end))

\* bounds.yMin ?? -Infinity and bounds.yMax ?? Infinity
orElse(v, d) == IF v = Undefined THEN d ELSE v

\* the domain test of lines 164-166 on x, y and z
inSpaceDomain(p, domain) ==
  \/ domain = Undefined
  \/ /\ Ge(p[1], domain.bounds.xMin) /\ Le(p[1], domain.bounds.xMax)
     /\ Ge(p[2], orElse(domain.bounds.yMin, NegInfinity))
     /\ Le(p[2], orElse(domain.bounds.yMax, Infinity))
     /\ Ge(p[3], orElse(domain.bounds.zMin, NegInfinity))
     /\ Le(p[3], orElse(domain.bounds.zMax, Infinity))

\* lines 136-152: y = f(x), kept as [x, y, 0]; the domain test (144-145)
\* reads the x and y bounds only
explicitPoints(f, vs, domain) ==
  LET raw == [k \in DOMAIN vs |->
                <<vs[k], safeEvaluateIn(f.formulaY, "x", vs[k]), Zero>>]
  IN SelectSeq(raw, LAMBDA p :
       /\ p[2] # Null
       /\ \/ domain = Undefined
          \/ /\ Ge(p[1], domain.bounds.xMin) /\ Le(p[1], domain.bounds.xMax)
             /\ Ge(p[2], orElse(domain.bounds.yMin, NegInfinity))
             /\ Le(p[2], orElse(domain.bounds.yMax, Infinity)))

\* lines 153-173: r(t) = <x(t), y(t), z(t)>, a missing formula giving 0
parametricPoints(f, vs, domain) ==
  LET coord(formula, t) == IF formula = "" THEN Zero ELSE safeEvaluateIn(formula, "t", t)
      raw == [k \in DOMAIN vs |->
                <<coord(f.formulaX, vs[k]), coord(f.formulaY, vs[k]),
                  coord(f.formulaZ, vs[k])>>]
  IN SelectSeq(raw, LAMBDA p :
       p[1] # Null /\ p[2] # Null /\ p[3] # Null /\ inSpaceDomain(p, domain))

\* getFunctionPoints(comp, domain), lines 123-233, for explicit and
\* parametric functions (the model draws no implicit one)
getFunctionPoints(comp, domain) ==
  IF comp.type # "function" \/ comp.function = Null THEN <<>>
  ELSE
  LET f == comp.function
      nd == normalizeFunctionDomain(f.domain)
      sampleCount == IF f.samples > 1 THEN f.samples ELSE 1
  IN IF ~Gt(Sub(nd[2], nd[1]), Zero) THEN <<>>
     ELSE IF f.funcType = "explicit" /\ f.formulaY # ""
     THEN explicitPoints(f, loopValues(nd[1], nd[2], sampleCount), domain)
     ELSE IF f.funcType = "parametric"
             /\ (f.formulaX # "" \/ f.formulaY # "" \/ f.formulaZ # "")
     THEN parametricPoints(f, loopValues(nd[1], nd[2], sampleCount), domain)
     ELSE <<>>

\* lines 295-304, for the points fPoints of the function
functionPointsContribution(comp, fPoints) ==
  [unboundedBelow |-> FALSE, unboundedAbove |-> FALSE,
   lows |-> <<>>, highs |-> <<>>, infinite |-> FALSE,
   scalar |-> [k \in DOMAIN fPoints |->
                 IF comp.function.funcType = "explicit" THEN fPoints[k][2]
                 ELSE fPoints[k][1]],
   ndPoints |-> fPoints,
   limits |-> <<>>, notCauchy |-> FALSE]

\* what one pass of components.forEach (lines 262-315) derives from comp
metricContribution(comp, spaceDomain) ==
  CASE comp.type = "interval" /\ comp.interval # Null ->
         LET iv == comp.interval
             infinite == iv.start = NegInfinity \/ iv.end = Infinity
         IN [unboundedBelow |-> iv.start = NegInfinity,
             unboundedAbove |-> iv.end = Infinity,
             lows |-> IF iv.start = NegInfinity THEN <<>> ELSE <<iv.start>>,
             highs |-> IF iv.end = Infinity THEN <<>> ELSE <<iv.end>>,
             infinite |-> infinite,
             scalar |-> <<>>,
             ndPoints |-> IF infinite THEN <<>> ELSE <<(<<iv.start>>), (<<iv.end>>)>>,
             limits |-> <<>>, notCauchy |-> FALSE]
    [] comp.type = "finite" /\ comp.finite # Null ->
         [unboundedBelow |-> FALSE, unboundedAbove |-> FALSE,
          lows |-> <<>>, highs |-> <<>>, infinite |-> FALSE,
          scalar |-> comp.finite.points,
          ndPoints |-> [i \in DOMAIN comp.finite.points |-> <<comp.finite.points[i]>>],
          limits |-> <<>>, notCauchy |-> FALSE]
    [] comp.type = "sequence" /\ comp.sequence # Null ->
         sequencePointsContribution(
           getSequencePointsMetric(comp.sequence.type, comp.sequence.limit,
                                   comp.sequence.customFormula))
    [] comp.type = "function" /\ comp.function # Null ->
         functionPointsContribution(comp, getFunctionPoints(comp, spaceDomain))
    [] OTHER ->
         [unboundedBelow |-> FALSE, unboundedAbove |-> FALSE,
          lows |-> <<>>, highs |-> <<>>, infinite |-> FALSE,
          scalar |-> <<>>, ndPoints |-> <<>>, limits |-> <<>>, notCauchy |-> FALSE]

\* lines 318-328: is the apparent limit L a member of some component
limitInSet(components, L) ==
  \E i \in DOMAIN components :
    LET c == components[i]
    IN CASE c.type = "interval" /\ c.interval # Null ->
              /\ (IF c.interval.leftOpen THEN Gt(L, c.interval.start)
                  ELSE Ge(L, c.interval.start))
              /\ (IF c.interval.rightOpen THEN Lt(L, c.interval.end)
                  ELSE Le(L, c.interval.end))
         [] c.type = "finite" /\ c.finite # Null ->
              \E k \in DOMAIN c.finite.points : AbsDiffLt(c.finite.points[k], L, MembershipTol)
         [] OTHER -> FALSE

\* lines 354-357
metricMaxOf(sup) == IF sup # Str("infinity") /\ sup # Null THEN sup ELSE Null

metricMinOf(inf) == IF inf # Str("-infinity") /\ inf # Null THEN inf ELSE Null

\* fault injection for compactness: boundedness alone
isCompactOf_boundedOnly(isBoundedSet, isComplete) == isBoundedSet

\* line 352: isCompact = isBoundedSet && isComplete
isCompactOf(isBoundedSet, isComplete) == isBoundedSet /\ isComplete

\* lines 317-369, for what the passes of components.forEach have derived
metricAnalysisOfContributions(components, contrib, dimension) ==
  LET globalMax == MathMax(FlatMap(LAMBDA c : c.highs \o c.scalar, contrib))
      globalMin == MathMin(FlatMap(LAMBDA c : c.lows \o c.scalar, contrib))
      isUnboundedAbove == \E i \in DOMAIN contrib : contrib[i].unboundedAbove
      isUnboundedBelow == \E i \in DOMAIN contrib : contrib[i].unboundedBelow
      hasInfiniteComponent == \E i \in DOMAIN contrib : contrib[i].infinite
      isCauchy == ~\E i \in DOMAIN contrib : contrib[i].notCauchy
      sequenceLimits == FlatMap(LAMBDA c : c.limits, contrib)
      allPointsForDiameter == FlatMap(LAMBDA c : c.ndPoints, contrib)
      isComplete == \A i \in DOMAIN sequenceLimits : limitInSet(components, sequenceLimits[i])
      sup == IF isUnboundedAbove THEN Str("infinity")
             ELSE IF globalMax = NegInfinity THEN Null ELSE globalMax
      inf == IF isUnboundedBelow THEN Str("-infinity")
             ELSE IF globalMin = Infinity THEN Null ELSE globalMin
      hasFunction == \E i \in DOMAIN components : components[i].type = "function"
      diameterInfo ==
        IF isUnboundedAbove \/ isUnboundedBelow THEN DiameterOnly(Str("infinity"))
        ELSE IF Len(allPointsForDiameter) = 0 THEN DiameterOnly(Null)
        ELSE DiameterCalculator_calculate(allPointsForDiameter, hasFunction)
      isBoundedSet == ~isUnboundedAbove /\ ~isUnboundedBelow
  IN [sup |-> sup, inf |-> inf,
      max |-> metricMaxOf(sup),
      min |-> metricMinOf(inf),
      diameter |-> diameterInfo.value,
      diameterInfo |-> diameterInfo,
      boundedAbove |-> ~isUnboundedAbove,
      boundedBelow |-> ~isUnboundedBelow,
      isBounded |-> isBoundedSet,
      isEmpty |-> FALSE,
      dimension |-> dimension,
      isCauchy |-> IF hasInfiniteComponent THEN Bool(isCauchy) ELSE Undefined,
      convergesTo |-> IF Len(sequenceLimits) > 0 THEN sequenceLimits[1] ELSE Null,
      isCompleteInSpace |-> IF hasInfiniteComponent THEN Bool(isComplete) ELSE Bool(TRUE),
      isCompact |-> Bool(isCompactOf(isBoundedSet, isComplete))]

calculateAnalysisMetric(components, dimension, spaceDomain) ==
  IF Len(components) = 0
  THEN [sup |-> Null, inf |-> Null, max |-> Null, min |-> Null, diameter |-> Null,
        diameterInfo |-> Undefined,
        boundedAbove |-> TRUE, boundedBelow |-> TRUE, isBounded |-> TRUE,
        isEmpty |-> TRUE, dimension |-> dimension,
        isCauchy |-> Undefined, convergesTo |-> Undefined,
        isCompleteInSpace |-> Undefined, isCompact |-> Bool(FALSE)]
  ELSE metricAnalysisOfContributions(
         components,
         [i \in DOMAIN components |-> metricContribution(components[i], spaceDomain)],
         dimension)

-----------------------------------------------------------------------------
(* Backend engine: src/backend/src/services/analyze.service.ts *)

\* evaluateFormula(formula, n) of analysis.types.ts lines 77-107 (mathjs):
\* the value of each formula of the backend catalogue, null when evaluation
\* throws or the result is not finite
BackendFormulas == {"1/n", "(-1)^n / n", "0.99999999995", "1/(n-1)", "ln(n)"}

evaluateFormula(formula, n) ==
  CASE formula = "1/n"           -> Ratio(1, n)
    [] formula = "(-1)^n / n"    -> IF n % 2 = 0 THEN Ratio(1, n) ELSE Neg(Ratio(1, n))
    [] formula = "0.99999999995" -> OneMinusTiny
    [] formula = "1/(n-1)"       -> IF n = 1 THEN Null ELSE Ratio(1, n - 1)
    [] OTHER                     -> Null

\* line 63: the number of passes of "for (n = start; n <= end; n++)"
iterationsOf(component) ==
  IF component.end < component.start THEN 0 ELSE component.end - component.start + 1

\* lines 60-71
evaluateSequence(component) ==
  SelectSeq([k \in 1..iterationsOf(component) |->
               evaluateFormula(component.formula, component.start + k - 1)],
            LAMBDA v : v # Null)

\* lines 34-55
extractSetData(components) ==
  [values |-> FlatMap(LAMBDA c : IF c.type = "sequence" THEN evaluateSequence(c) ELSE <<>>,
                      components),
   intervalBounds |-> FlatMap(LAMBDA c : IF c.type = "interval"
                                         THEN <<[start |-> c.start, end |-> c.end,
                                                 openStart |-> c.openStart,
                                                 openEnd |-> c.openEnd]>>
                                         ELSE <<>>,
                              components)]

\* lines 123-149
computeSupremum(values, intervalBounds) ==
  LET sup == MathMax(values \o [i \in DOMAIN intervalBounds |-> intervalBounds[i].end])
  IN IF sup = NegInfinity THEN Null ELSE sup

\* lines 154-180
computeInfimum(values, intervalBounds) ==
  LET inf == MathMin(values \o [i \in DOMAIN intervalBounds |-> intervalBounds[i].start])
  IN IF inf = Infinity THEN Null ELSE inf

\* EPSILON = 1e-10
EPSILON == Ticks(100)

\* fault injection for the maximum: openEnd is not consulted
computeMaximum_ignoringOpenEnd(values, intervalBounds, sup) ==
  IF sup = Null THEN Null
  ELSE IF \E i \in DOMAIN values : AbsDiffLt(values[i], sup, EPSILON) THEN sup
  ELSE IF \E i \in DOMAIN intervalBounds :
             AbsDiffLt(intervalBounds[i].end, sup, EPSILON)
       THEN sup
  ELSE Null

\* lines 186-212
computeMaximum(values, intervalBounds, sup) ==
  IF sup = Null THEN Null
  ELSE IF \E i \in DOMAIN values : AbsDiffLt(values[i], sup, EPSILON) THEN sup
  ELSE IF \E i \in DOMAIN intervalBounds :
             AbsDiffLt(intervalBounds[i].end, sup, EPSILON) /\ ~intervalBounds[i].openEnd
       THEN sup
  ELSE Null

\* lines 218-244
computeMinimum(values, intervalBounds, inf) ==
  IF inf = Null THEN Null
  ELSE IF \E i \in DOMAIN values : AbsDiffLt(values[i], inf, EPSILON) THEN inf
  ELSE IF \E i \in DOMAIN intervalBounds :
             AbsDiffLt(intervalBounds[i].start, inf, EPSILON) /\ ~intervalBounds[i].openStart
       THEN inf
  ELSE Null

\* DEFAULT_EPSILON = 0.01
DEFAULT_EPSILON == Milli(10)

\* lines 249-261
computeEpsilonBand(sup, epsilon) ==
  IF sup = Null THEN Null
  ELSE [epsilon |-> epsilon, interval |-> <<Sub(sup, epsilon), sup>>]

\* lines 76-118
computeAnalysis(data) ==
  IF Len(data.values) = 0 /\ Len(data.intervalBounds) = 0
  THEN [boundedAbove |-> TRUE, boundedBelow |-> TRUE, sup |-> Null, inf |-> Null,
        max |-> Null, min |-> Null, epsilonBand |-> Null]
  ELSE
  LET sup == computeSupremum(data.values, data.intervalBounds)
      inf == computeInfimum(data.values, data.intervalBounds)
  IN [boundedAbove |-> sup # Null /\ isFinite(sup),
      boundedBelow |-> inf # Null /\ isFinite(inf),
      sup |-> sup,
      inf |-> inf,
      max |-> computeMaximum(data.values, data.intervalBounds, sup),
      min |-> computeMinimum(data.values, data.intervalBounds, inf),
      epsilonBand |-> computeEpsilonBand(sup, DEFAULT_EPSILON)]

\* lines 23-29
analyzeSet(request) == computeAnalysis(extractSetData(request.components))

-----------------------------------------------------------------------------
(* Backend boundary: src/backend/src/utils/validators.ts and the           *)
(* controller of src/unnamed/part_008.  A request body is a JSON value:    *)
(* null, a string Str(s), a number, a boolean Bool(b), an array            *)
(* [k |-> "array", items] or an object [k |-> "object", ...fields]; a      *)
(* field that is missing reads as Undefined.                               *)

JArray(items) == [k |-> "array", items |-> items]

\* value.name of a JSON value that passed the object test
field(value, name) ==
  IF value.k = "object" /\ name \in DOMAIN value THEN value[name] ELSE Undefined

\* !value || typeof value !== 'object' is false: arrays are objects too
isObject(value) == value.k \in {"object", "array"}

\* typeof value === 'number'
isNumber(value) == value.k = "num"

\* Number.isInteger(value)
isInteger(value) == isNumber(value) /\ isFinite(value) /\ value.c % CoarsePerUnit = 0 /\ value.f = 0

\* formula.trim() for the formula texts of this model
trim(text) == IF text \in {"", "  "} THEN "" ELSE text

\* isValidFormula(formula), analysis.types.ts lines 114-142, for the
\* formula texts of this model: "eval(n)" matches a dangerous pattern,
\* "n +" does not parse, every other text parses ("ln(n)" parses although
\* it does not evaluate)
isValidFormula(formula) == formula \notin {"eval(n)", "n +"}

ValidationError(index, message) == [component |-> index, message |-> message]

errorIf(condition, index, message) ==
  IF condition THEN <<ValidationError(index, message)>> ELSE <<>>

SequenceCap == 100000

\* validators.ts lines 70-93
validateSequence(comp, index) ==
  errorIf(field(comp, "formula").k # "str" \/ trim(field(comp, "formula").s) = "",
          index, "Sequence must have a non-empty formula string")
  \o errorIf(field(comp, "formula").k = "str" /\ trim(field(comp, "formula").s) # ""
               /\ ~isValidFormula(field(comp, "formula").s),
             index, "Invalid or unsafe formula")
  \o errorIf(~isInteger(field(comp, "start")), index,
             "Sequence must have an integer start value")
  \o errorIf(~isInteger(field(comp, "end")), index,
             "Sequence must have an integer end value")
  \o errorIf(isNumber(field(comp, "start")) /\ isNumber(field(comp, "end"))
               /\ Gt(field(comp, "start"), field(comp, "end")),
             index, "start must be less than or equal to end")
  \o errorIf(isNumber(field(comp, "start")) /\ isNumber(field(comp, "end"))
               /\ Gt(Sub(field(comp, "end"), field(comp, "start")), IntNum(SequenceCap)),
             index, "Sequence range too large (max 100000 elements)")

\* fault injection for the boundary: interval ends need only be numbers
validateInterval_anyNumber(comp, index) ==
  errorIf(~isNumber(field(comp, "start")), index,
          "Interval must have a finite start number")
  \o errorIf(~isNumber(field(comp, "end")), index,
             "Interval must have a finite end number")
  \o errorIf(isNumber(field(comp, "start")) /\ isNumber(field(comp, "end"))
               /\ Gt(field(comp, "start"), field(comp, "end")),
             index, "Interval start must be less than or equal to end")
  \o errorIf(field(comp, "openStart").k # "bool", index,
             "Interval must have a boolean openStart value")
  \o errorIf(field(comp, "openEnd").k # "bool", index,
             "Interval must have a boolean openEnd value")

\* validators.ts lines 94-117
validateInterval(comp, index) ==
  errorIf(~(isNumber(field(comp, "start")) /\ isFinite(field(comp, "start"))), index,
          "Interval must have a finite start number")
  \o errorIf(~(isNumber(field(comp, "end")) /\ isFinite(field(comp, "end"))), index,
             "Interval must have a finite end number")
  \o errorIf(isNumber(field(comp, "start")) /\ isNumber(field(comp, "end"))
               /\ Gt(field(comp, "start"), field(comp, "end")),
             index, "Interval start must be less than or equal to end")
  \o errorIf(field(comp, "openStart").k # "bool", index,
             "Interval must have a boolean openStart value")
  \o errorIf(field(comp, "openEnd").k # "bool", index,
             "Interval must have a boolean openEnd value")

\* validators.ts lines 55-120
validateComponent(component, index) ==
  IF ~isObject(component) THEN <<ValidationError(index, "Must be an object")>>
  ELSE IF field(component, "type") = Str("sequence") THEN validateSequence(component, index)
  ELSE IF field(component, "type") = Str("interval") THEN validateInterval(component, index)
  ELSE <<ValidationError(index, "Type must be sequence or interval")>>

ValidationResult(errors) == [valid |-> errors = <<>>, errors |-> errors]

\* the errors of the components from position i on, in order
RECURSIVE componentErrors(_, _)
componentErrors(items, i) ==
  IF i > Len(items) THEN <<>>
  ELSE validateComponent(items[i], i - 1) \o componentErrors(items, i + 1)

\* fault injection for the boundary: an empty components array passes
validateAnalyzeRequest_emptyAllowed(body) ==
  IF ~isObject(body) THEN [valid |-> FALSE, errors |-> <<"Request body must be a JSON object">>]
  ELSE IF field(body, "components").k # "array"
  THEN [valid |-> FALSE, errors |-> <<"Request must contain a components array">>]
  ELSE ValidationResult(componentErrors(field(body, "components").items, 1))

\* validators.ts lines 21-50
validateAnalyzeRequest(body) ==
  IF ~isObject(body) THEN [valid |-> FALSE, errors |-> <<"Request body must be a JSON object">>]
  ELSE IF field(body, "components").k # "array"
  THEN [valid |-> FALSE, errors |-> <<"Request must contain a components array">>]
  ELSE IF Len(field(body, "components").items) = 0
  THEN [valid |-> FALSE, errors |-> <<"Components array must not be empty">>]
  ELSE ValidationResult(componentErrors(field(body, "components").items, 1))

\* req.body as AnalyzeRequest (part_008 line 30): the validated body read
\* as typed components
asSetComponent(comp) ==
  IF comp.type = Str("sequence")
  THEN [type |-> "sequence", formula |-> comp.formula.s,
        start |-> comp.start.c \div CoarsePerUnit, end |-> comp.end.c \div CoarsePerUnit]
  ELSE [type |-> "interval", start |-> comp.start, end |-> comp.end,
        openStart |-> comp.openStart.v, openEnd |-> comp.openEnd.v]

asAnalyzeRequest(body) ==
  [components |-> [i \in DOMAIN body.components.items |->
                     asSetComponent(body.components.items[i])]]

\* values.push(...sequenceValues) (analyze.service.ts line 41) passes every
\* value of the sequence as one argument of a call.  How many arguments a
\* call takes is left to the JavaScript engine; the model takes the spread
\* to succeed up to the documented cap of the boundary and to either
\* succeed or raise a RangeError beyond it.
spreadMayThrow(request) ==
  \E i \in DOMAIN request.components :
    /\ request.components[i].type = "sequence"
    /\ Len(evaluateSequence(request.components[i])) > SequenceCap

\* analyzeController (part_008 lines 14-47) for the body and for whether
\* analyzeSet threw; analyzeSetCalls counts the invocations of analyzeSet
analyzeController(body, threw) ==
  IF ~validateAnalyzeRequest(body).valid
  THEN [status |-> 400,
        json |-> [error |-> "Invalid request",
                  details |-> validateAnalyzeRequest(body).errors],
        analyzeSetCalls |-> 0, threw |-> FALSE]
  ELSE IF threw
  THEN [status |-> 500,
        json |-> [error |-> "Internal server error", message |-> "RangeError"],
        analyzeSetCalls |-> 1, threw |-> TRUE]
  ELSE [status |-> 200, json |-> analyzeSet(asAnalyzeRequest(body)),
        analyzeSetCalls |-> 1, threw |-> FALSE]

-----------------------------------------------------------------------------
(* Frontend engine: src/frontend/lib/calculations.ts *)

\* An interval end is typed by the user: undefined, a number, or a string.
\* NumStr(v) is the decimal text of the finite number v (parseFloat gives v
\* back); Str(s) is any other text, lower-cased and trimmed ("<U+221E>" is
\* the infinity sign).
NumStr(v) == [k |-> "numstr", v |-> v]

\* lines 3-13
parseInfinity(val) ==
  CASE val = Undefined -> Null
    [] val.k = "num" -> IF isFinite(val) THEN val ELSE Null
    [] val.k = "numstr" -> val.v
    [] val.k = "str" ->
         IF val.s \in {"inf", "infinity", "<U+221E>", "+<U+221E>"} THEN Infinity
         ELSE IF val.s \in {"-inf", "-infinity", "-<U+221E>"} THEN NegInfinity
         ELSE Null
    [] OTHER -> Null

\* lines 15-23
UnboundedMinPoints == 10

RecentWindow == 5

isSequenceUnbounded(points) ==
  IF Len(points) < UnboundedMinPoints THEN FALSE
  ELSE LET recentMax == MathMax(SubSeq(points, Len(points) - RecentWindow + 1, Len(points)))
           absMax == Abs(recentMax)
       IN Gt(absMax, IntNum(1000))
          \/ (Gt(absMax, IntNum(100)) /\ Gt(points[Len(points)], points[1]))

\* evaluateCustomSequenceFormula(formula, n), lines 207-222: the value of each
\* formula of the frontend catalogue; Null stands for the thrown
\* "Invalid formula"
FrontendFormulas == {"n", "n*3", "n*30", "-n*30", "1/n", "abc"}

evaluateCustomSequenceFormula(formula, n) ==
  CASE formula = "n"     -> IntNum(n)
    [] formula = "n*3"   -> IntNum(n * 3)
    [] formula = "n*30"  -> IntNum(n * 30)
    [] formula = "-n*30" -> IntNum(-(n * 30))
    [] formula = "1/n"   -> Ratio(1, n)
    [] OTHER             -> Null

\* lines 224-262
generateSequencePoints(formula, count, isCustom) ==
  LET value(n) ==
        IF isCustom THEN evaluateCustomSequenceFormula(formula, n)
        ELSE CASE formula = "1/n"     -> Ratio(1, n)
               [] formula = "(-1)^n"  -> IF n % 2 = 0 THEN One ELSE MinusOne
               [] formula = "n/(n+1)" -> Ratio(n, n + 1)
               [] formula = "1 - 1/n" -> Sub(One, Ratio(1, n))
               [] OTHER               -> IntNum(n)
  IN SelectSeq([n \in 1..count |-> value(n)], LAMBDA v : v # Null /\ isFinite(v))

FrontendSequenceCount == 50

IntervalSteps == 20

NoBounds ==
  [points |-> <<>>, infimum |-> Null, supremum |-> Null,
   hasMin |-> FALSE, hasMax |-> FALSE, isUnbounded |-> FALSE]

\* lines 41-78
intervalBoundsOf(component, startVal, endVal) ==
  LET start == MinNum(startVal, endVal)
      end == MaxNum(startVal, endVal)
      leftBracket0 == IF component.leftBracket = Undefined THEN Str("[") ELSE component.leftBracket
      rightBracket0 == IF component.rightBracket = Undefined THEN Str("]") ELSE component.rightBracket
      actualLeftBracket == IF startVal = NegInfinity THEN Str("(") ELSE leftBracket0
      actualRightBracket == IF endVal = Infinity THEN Str(")") ELSE rightBracket0
      step == Div20(Sub(end, start))
  IN IF startVal = Null \/ endVal = Null THEN NoBounds
     ELSE [points |->
             IF isFinite(start) /\ isFinite(end)
             THEN [k \in 1..(IntervalSteps + 1) |-> Add(start, MulSmall(step, k - 1))]
             ELSE IF isFinite(start) /\ ~isFinite(end)
             THEN [k \in 1..(IntervalSteps + 1) |-> Add(start, IntNum(k - 1))]
             ELSE IF ~isFinite(start) /\ isFinite(end)
             THEN [k \in 1..(IntervalSteps + 1) |-> Sub(end, IntNum(IntervalSteps - (k - 1)))]
             ELSE <<>>,
           infimum |-> IF isFinite(start) THEN start ELSE Null,
           supremum |-> IF isFinite(end) THEN end ELSE Null,
           hasMin |-> isFinite(start) /\ actualLeftBracket = Str("["),
           hasMax |-> isFinite(end) /\ actualRightBracket = Str("]"),
           isUnbounded |-> ~isFinite(start) \/ ~isFinite(end)]

intervalBounds(component) ==
  intervalBoundsOf(component, parseInfinity(component.start), parseInfinity(component.end))

\* lines 80-89; a missing elements array is held as the empty array (both
\* take the same early break)
finiteBounds(component) ==
  IF Len(component.elements) = 0 THEN NoBounds
  ELSE [points |-> component.elements,
        infimum |-> MathMin(component.elements),
        supremum |-> MathMax(component.elements),
        hasMin |-> TRUE, hasMax |-> TRUE, isUnbounded |-> FALSE]

\* lines 97-118: the preset table
presetSequenceBounds(sequenceFormula) ==
  CASE sequenceFormula = Str("1/n") ->
         [infimum |-> Zero, supremum |-> One, hasMin |-> FALSE, hasMax |-> TRUE]
    [] sequenceFormula = Str("(-1)^n") ->
         [infimum |-> MinusOne, supremum |-> One, hasMin |-> TRUE, hasMax |-> TRUE]
    [] sequenceFormula = Str("n/(n+1)") ->
         [infimum |-> Half, supremum |-> One, hasMin |-> TRUE, hasMax |-> FALSE]
    [] sequenceFormula = Str("1 - 1/n") ->
         [infimum |-> Zero, supremum |-> One, hasMin |-> FALSE, hasMax |-> FALSE]
    [] OTHER ->
         [infimum |-> Null, supremum |-> Null, hasMin |-> FALSE, hasMax |-> FALSE]

\* lines 91-134
sequenceBoundsOf(component, seqPoints) ==
  LET isUnbounded == isSequenceUnbounded(seqPoints)
      custom == component.isCustomFormula = Bool(TRUE)
      preset == presetSequenceBounds(component.sequenceFormula)
      sampled == ~isUnbounded /\ Len(seqPoints) > 0
  IN [points |-> seqPoints,
      infimum |-> IF ~custom THEN preset.infimum
                  ELSE IF sampled THEN MathMin(seqPoints) ELSE Null,
      supremum |-> IF ~custom THEN preset.supremum
                   ELSE IF sampled THEN MathMax(seqPoints) ELSE Null,
      hasMin |-> IF ~custom THEN preset.hasMin ELSE sampled,
      hasMax |-> IF ~custom THEN preset.hasMax ELSE sampled,
      isUnbounded |-> isUnbounded]

\* line 92: component.sequenceFormula || "1/n"
sequenceBounds(component) ==
  sequenceBoundsOf(component,
    generateSequencePoints(
      IF component.sequenceFormula = Undefined \/ component.sequenceFormula = Str("")
      THEN "1/n" ELSE component.sequenceFormula.s,
      FrontendSequenceCount,
      component.isCustomFormula = Bool(TRUE)))

\* lines 25-138
calculateComponentBounds(component) ==
  CASE component.type = "interval" -> intervalBounds(component)
    [] component.type = "finite"   -> finiteBounds(component)
    [] component.type = "sequence" -> sequenceBounds(component)
    [] OTHER -> NoBounds

\* lines 180-188: fold of one component into the running union bound
foldInfimum(minInf, infimum) ==
  IF infimum = Null THEN minInf
  ELSE IF minInf = Null THEN infimum ELSE MinNum(minInf, infimum)

foldSupremum(maxSup, supremum) ==
  IF supremum = Null THEN maxSup
  ELSE IF maxSup = Null THEN supremum ELSE MaxNum(maxSup, supremum)

RECURSIVE foldBounds(_, _, _)
foldBounds(F(_, _), acc, xs) ==
  IF xs = <<>> THEN acc ELSE foldBounds(F, F(acc, Head(xs)), Tail(xs))

\* lines 140-205; allPoints (a sorted array without duplicates) is held as
\* the set of its elements, and a setDef without a components array as one
\* with the empty array
boundsOfComponents(components, cb) ==
  LET hasUnboundedBelow ==
        \E i \in DOMAIN components :
          IF components[i].type = "interval"
          THEN parseInfinity(components[i].start) = NegInfinity
          ELSE cb[i].isUnbounded
      hasUnboundedAbove ==
        \E i \in DOMAIN components :
          IF components[i].type = "interval"
          THEN parseInfinity(components[i].end) = Infinity
          ELSE cb[i].isUnbounded
      minInf == foldBounds(foldInfimum, Null, [i \in DOMAIN cb |-> cb[i].infimum])
      maxSup == foldBounds(foldSupremum, Null, [i \in DOMAIN cb |-> cb[i].supremum])
      unionHasMin == \E i \in DOMAIN cb : cb[i].infimum # Null /\ cb[i].hasMin
      unionHasMax == \E i \in DOMAIN cb : cb[i].supremum # Null /\ cb[i].hasMax
      allPoints == UNION {Range(cb[i].points) : i \in DOMAIN cb}
  IN IF Len(components) = 0
     THEN [infimum |-> Null, supremum |-> Null,
           isBoundedBelow |-> FALSE, isBoundedAbove |-> FALSE,
           hasMin |-> FALSE, hasMax |-> FALSE, isEmpty |-> TRUE, allPoints |-> {},
           isUnboundedAbove |-> FALSE, isUnboundedBelow |-> FALSE]
     ELSE [infimum |-> minInf, supremum |-> maxSup,
           isBoundedBelow |-> minInf # Null /\ ~hasUnboundedBelow,
           isBoundedAbove |-> maxSup # Null /\ ~hasUnboundedAbove,
           hasMin |-> unionHasMin, hasMax |-> unionHasMax,
           isEmpty |-> allPoints = {}, allPoints |-> allPoints,
           isUnboundedAbove |-> hasUnboundedAbove, isUnboundedBelow |-> hasUnboundedBelow]

calculateBounds(setDef) ==
  boundsOfComponents(setDef.components,
    [i \in DOMAIN setDef.components |-> calculateComponentBounds(setDef.components[i])])

-----------------------------------------------------------------------------
(* Inputs of the universe-aware engine: SetComponent of src/types.ts *)

MaxComponents == 2

IntervalComp(start, end, leftOpen, rightOpen) ==
  [type |-> "interval",
   interval |-> [start |-> start, end |-> end, leftOpen |-> leftOpen, rightOpen |-> rightOpen],
   finite |-> Null, sequence |-> Null]

FiniteComp(points) ==
  [type |-> "finite", interval |-> Null, finite |-> [points |-> points], sequence |-> Null]

SequenceComp(type, customFormula, limit) ==
  [type |-> "sequence", interval |-> Null, finite |-> Null,
   sequence |-> [type |-> type, customFormula |-> customFormula, limit |-> limit]]

\* a component whose parameter record is missing (the fields are optional)
BareComp(type) ==
  [type |-> type, interval |-> Null, finite |-> Null, sequence |-> Null]

IntervalPool ==
  {IntervalComp(Zero, One, lo, ro) : lo \in BOOLEAN, ro \in BOOLEAN}
  \cup {IntervalComp(One, One, lo, ro) : lo \in BOOLEAN, ro \in BOOLEAN}
  \cup {IntervalComp(Zero, OneMinus, FALSE, ro) : ro \in BOOLEAN}
  \cup {IntervalComp(NegInfinity, e, TRUE, TRUE) : e \in {SQRT2, Sqrt2Plus, Sqrt2Far, PI}}
  \cup {IntervalComp(MinusOne, Infinity, FALSE, TRUE),
        IntervalComp(NegInfinity, Infinity, TRUE, TRUE),
        IntervalComp(One, Zero, FALSE, FALSE),
        IntervalComp(Zero, SQRT2, FALSE, FALSE)}

FinitePool ==
  {FiniteComp(<<>>), FiniteComp(<<One>>), FiniteComp(<<Two, Zero>>),
   FiniteComp(<<OneMinus>>), FiniteComp(<<SQRT5, MinusOne>>), FiniteComp(<<SQRT3, E>>)}

SequenceLimits == {5, 40}

SequencePool ==
  {SequenceComp("1/n", "", l) : l \in SequenceLimits}
  \cup {SequenceComp(t, "", 8) : t \in {"harmonic", "alternating", "geometric", "custom"}}
  \cup {SequenceComp("custom", f, 8) : f \in Formulas}

ComponentPool ==
  IntervalPool \cup FinitePool \cup SequencePool \cup {BareComp("interval")}

Universes == {"R", "Q"}

-----------------------------------------------------------------------------
(* Inputs of the metric-space engine: SetComponent of src/unnamed/part_000 *)

MetricSequenceLimits == {3, 6}

MetricIntervalPool ==
  {IntervalComp(Zero, One, lo, ro) : lo \in BOOLEAN, ro \in BOOLEAN}
  \cup {IntervalComp(One, One, FALSE, FALSE),
        IntervalComp(MinusOne, Two, FALSE, FALSE),
        IntervalComp(Half, Two, TRUE, TRUE),
        IntervalComp(NegInfinity, One, TRUE, FALSE),
        IntervalComp(Zero, Infinity, FALSE, TRUE),
        IntervalComp(One, Zero, FALSE, FALSE)}

MetricSequencePool ==
  {SequenceComp("1/n", "", l) : l \in MetricSequenceLimits}
  \cup {SequenceComp(t, "", 6) : t \in {"alternating", "geometric"}}
  \cup {SequenceComp("custom", f, 6) : f \in {"n", "1-1/n", "1/(n-1)", "foo("}}

MetricPool ==
  MetricIntervalPool
  \cup {FiniteComp(<<>>), FiniteComp(<<One>>), FiniteComp(<<Two, Zero>>)}
  \cup MetricSequencePool

Dimensions == {1, 2, 3}

-----------------------------------------------------------------------------
(* Inputs of the backend: AnalyzeRequest of component.types.ts *)

BackendInterval(start, end, openStart, openEnd) ==
  [type |-> "interval", start |-> start, end |-> end,
   openStart |-> openStart, openEnd |-> openEnd]

BackendSequence(formula, start, end) ==
  [type |-> "sequence", formula |-> formula, start |-> start, end |-> end]

BackendPool ==
  {BackendInterval(Zero, One, os, oe) : os \in BOOLEAN, oe \in BOOLEAN}
  \cup {BackendInterval(One, One, os, oe) : os \in BOOLEAN, oe \in BOOLEAN}
  \cup {BackendInterval(Zero, OneMinusTiny, FALSE, FALSE),
        BackendInterval(OneMinusTiny, One, FALSE, TRUE),
        BackendInterval(MinusOne, Two, TRUE, TRUE),
        BackendInterval(Half, OneMinus, FALSE, FALSE)}
  \cup {BackendSequence("1/n", 1, 3), BackendSequence("(-1)^n / n", 1, 4),
        BackendSequence("0.99999999995", 1, 1), BackendSequence("1/(n-1)", 1, 3),
        BackendSequence("ln(n)", 1, 2)}

-----------------------------------------------------------------------------
(* Inputs of the frontend: SetDefinition of frontend/lib/types *)

FrontendInterval(start, end, leftBracket, rightBracket) ==
  [type |-> "interval", start |-> start, end |-> end,
   leftBracket |-> leftBracket, rightBracket |-> rightBracket]

FrontendFinite(elements) == [type |-> "finite", elements |-> elements]

FrontendSequence(sequenceFormula, isCustomFormula) ==
  [type |-> "sequence", sequenceFormula |-> sequenceFormula,
   isCustomFormula |-> isCustomFormula]

FrontendPool ==
  {FrontendInterval(NumStr(Zero), NumStr(One), Str(l), Str(r)) : l \in {"[", "("}, r \in {"]", ")"}}
  \cup {FrontendInterval(NumStr(Zero), NumStr(Two), Undefined, Undefined),
        FrontendInterval(NumStr(Zero), NumStr(Two), Str("["), Str(")")),
        FrontendInterval(One, Zero, Str("["), Str(")")),
        FrontendInterval(Str("-inf"), NumStr(One), Str("["), Str("]")),
        FrontendInterval(NumStr(Zero), Str("inf"), Str("["), Str("]")),
        FrontendInterval(Str("-infinity"), Str("+<U+221E>"), Str("("), Str(")")),
        FrontendInterval(Undefined, NumStr(One), Str("["), Str("]")),
        FrontendInterval(NumStr(Zero), Infinity, Str("["), Str("]")),
        FrontendInterval(NumStr(Half), Str("abc"), Str("["), Str("]"))}
  \cup {FrontendFinite(<<>>), FrontendFinite(<<One>>), FrontendFinite(<<Zero, Two>>)}
  \cup {FrontendSequence(Str(f), Bool(FALSE)) :
          f \in {"1/n", "(-1)^n", "n/(n+1)", "1 - 1/n", "n^2"}}
  \cup {FrontendSequence(Undefined, Undefined)}
  \cup {FrontendSequence(Str(f), Bool(TRUE)) : f \in FrontendFormulas}

-----------------------------------------------------------------------------
(* State machine.  Each engine is a pure function of the state its caller   *)
(* holds (App state of src/unnamed/part_006, the request body of the        *)
(* controller, the set definition of the frontend page); a behaviour is one *)
(* caller state and the call that derives the analysis from it.             *)

InitCalculateAnalysis ==
  /\ pc = "ready"
  /\ fn = "calculateAnalysis"
  /\ args \in [components : ListsUpTo(ComponentPool, MaxComponents), universe : Universes]
  /\ result = Null
  /\ globalThis = NoGlobals

InitCalculateAnalysisMetric ==
  /\ pc = "ready"
  /\ fn = "calculateAnalysisMetric"
  /\ args \in [components : ListsUpTo(MetricPool, MaxComponents), dimension : Dimensions,
               spaceDomain : {Undefined}]
  /\ result = Null
  /\ globalThis = NoGlobals

InitAnalyzeSet ==
  /\ pc = "ready"
  /\ fn = "analyzeSet"
  /\ args \in [components : ListsUpTo(BackendPool, MaxComponents)]
  /\ result = Null
  /\ globalThis = NoGlobals

InitCalculateBounds ==
  /\ pc = "ready"
  /\ fn = "calculateBounds"
  /\ args \in [components : ListsUpTo(FrontendPool, MaxComponents)]
  /\ result = Null
  /\ globalThis = NoGlobals

Init ==
  \/ InitCalculateAnalysis
  \/ InitCalculateAnalysisMetric
  \/ InitAnalyzeSet
  \/ InitCalculateBounds

CallCalculateAnalysis ==
  /\ pc = "ready"
  /\ fn = "calculateAnalysis"
  /\ result' = calculateAnalysis(args.components, args.universe)
  /\ pc' = "done"
  /\ UNCHANGED <<fn, args, globalThis>>

CallCalculateAnalysisMetric ==
  /\ pc = "ready"
  /\ fn = "calculateAnalysisMetric"
  /\ result' = calculateAnalysisMetric(args.components, args.dimension, args.spaceDomain)
  /\ pc' = "done"
  /\ UNCHANGED <<fn, args, globalThis>>

CallAnalyzeSet ==
  /\ pc = "ready"
  /\ fn = "analyzeSet"
  /\ result' = analyzeSet(args)
  /\ pc' = "done"
  /\ UNCHANGED <<fn, args, globalThis>>

CallCalculateBounds ==
  /\ pc = "ready"
  /\ fn = "calculateBounds"
  /\ result' = calculateBounds(args)
  /\ pc' = "done"
  /\ UNCHANGED <<fn, args, globalThis>>

Next ==
  \/ CallCalculateAnalysis
  \/ CallCalculateAnalysisMetric
  \/ CallAnalyzeSet
  \/ CallCalculateBounds

Spec == Init /\ [][Next]_vars

-----------------------------------------------------------------------------
(* Calls of the metric-space engine on function components, with and       *)
(* without a space domain: SetComponent.function and SpaceDomain of         *)
(* src/unnamed/part_000.  A missing formula is held as "".                  *)

FunctionComp(funcType, formulaX, formulaY, formulaZ, domain, samples) ==
  [type |-> "function", interval |-> Null, finite |-> Null, sequence |-> Null,
   function |-> [funcType |-> funcType, formulaX |-> formulaX, formulaY |-> formulaY,
                 formulaZ |-> formulaZ, domain |-> domain, samples |-> samples]]

FunctionPool ==
  {FunctionComp("explicit", "", "x^2", "", <<Zero, Two>>, 2),
   FunctionComp("explicit", "", "-x", "", <<MinusOne, One>>, 2),
   FunctionComp("explicit", "", "x", "", <<One, One>>, 1),
   FunctionComp("explicit", "", "foo(", "", <<Zero, Two>>, 2),
   FunctionComp("parametric", "t", "t^2", "", <<Zero, Two>>, 2),
   FunctionComp("parametric", "t", "2", "-t", <<Zero, IntNum(3)>>, 3),
   FunctionComp("parametric", "", "", "", <<Zero, Two>>, 2)}

FunctionMetricPool ==
  FunctionPool
  \cup {IntervalComp(Zero, One, FALSE, FALSE), IntervalComp(Zero, One, TRUE, TRUE),
        IntervalComp(Zero, Infinity, FALSE, TRUE),
        SequenceComp("1/n", "", 6), FiniteComp(<<One>>)}

SpaceDomain(dimension, xMin, xMax, yMin, yMax, zMin, zMax) ==
  [dimension |-> dimension,
   bounds |-> [xMin |-> xMin, xMax |-> xMax, yMin |-> yMin, yMax |-> yMax,
               zMin |-> zMin, zMax |-> zMax],
   isBoundedSpace |-> TRUE]

BoundedSpaceDomains ==
  {SpaceDomain(2, Zero, One, Zero, One, Undefined, Undefined),
   SpaceDomain(3, MinusOne, Two, Undefined, Undefined, Zero, Zero),
   SpaceDomain(2, IntNum(5), IntNum(6), Undefined, Undefined, Undefined, Undefined)}

InitFunctions ==
  /\ pc = "ready"
  /\ fn = "calculateAnalysisMetric"
  /\ args \in [components : ListsUpTo(FunctionMetricPool, MaxComponents),
               dimension : {2, 3},
               spaceDomain : {Undefined} \cup BoundedSpaceDomains]
  /\ result = Null
  /\ globalThis = NoGlobals

SpecFunctions == InitFunctions /\ [][CallCalculateAnalysisMetric]_vars

-----------------------------------------------------------------------------
(* Diameter calls.  The exported entry points of diameterCalculator.ts are  *)
(* called on point lists: every list of up to MaxPoints points of a small   *)
(* pool, and long lists (one base point repeated, a few marked positions    *)
(* holding other points) whose lengths take each branch of the selection    *)
(* by size.                                                                  *)

MaxPoints == 3

SmallPoints ==
  {<<Zero>>, <<One>>, <<IntNum(3)>>, <<Zero, IntNum(4)>>, <<IntNum(3), Zero, IntNum(4)>>}

\* a kite: |AB| = 14, |CD| = 16, every other distance sqrt(113)
KiteA == <<Zero, IntNum(7)>>

KiteB == <<Zero, IntNum(-7)>>

KiteC == <<IntNum(-8), Zero>>

KiteD == <<IntNum(8), Zero>>

LargeCounts == {51, 60, 99, 100, 250, 400}

Layouts ==
  {[base |-> KiteA, marks |-> (2 :> KiteB @@ 3 :> KiteC @@ 4 :> KiteD)],
   [base |-> KiteA, marks |-> (1 :> KiteC @@ 2 :> KiteD @@ 3 :> KiteB)],
   [base |-> <<Zero>>, marks |-> (2 :> <<IntNum(10)>> @@ 4 :> <<IntNum(-10)>>)],
   [base |-> <<One>>, marks |-> <<>>],
   [base |-> <<Zero>>, marks |-> (1 :> <<One>> @@ 2 :> <<IntNum(6)>>)]}

LargeLists ==
  {[i \in 1..n |-> IF i \in DOMAIN l.marks THEN l.marks[i] ELSE l.base] :
     n \in LargeCounts, l \in Layouts}

PointLists == ListsUpTo(SmallPoints, MaxPoints) \cup LargeLists

PointGroups ==
  ListsUpTo(ListsUpTo(SmallPoints, 1) \cup {<<(<<One>>), (<<Zero, IntNum(4)>>)>>}, 2)

InitDiameterCalculate ==
  /\ pc = "ready"
  /\ fn = "DiameterCalculator.calculate"
  /\ args \in [points : PointLists, isManifold : BOOLEAN]
  /\ result = Null
  /\ globalThis = NoGlobals

InitCombineSetsDiameter ==
  /\ pc = "ready"
  /\ fn = "DiameterCalculator.combineSetsDiameter"
  /\ args \in [pointGroups : PointGroups]
  /\ result = Null
  /\ globalThis = NoGlobals

InitFindDiameterOnSurface ==
  /\ pc = "ready"
  /\ fn = "findDiameterOnSurface"
  /\ args \in [surfacePoints : PointLists]
  /\ result = Null
  /\ globalThis = NoGlobals

InitFindDiameterParametric ==
  /\ pc = "ready"
  /\ fn = "findDiameterParametric"
  /\ args \in [points : PointLists]
  /\ result = Null
  /\ globalThis = NoGlobals

InitDiameter ==
  \/ InitDiameterCalculate
  \/ InitCombineSetsDiameter
  \/ InitFindDiameterOnSurface
  \/ InitFindDiameterParametric

CallDiameterCalculate ==
  /\ pc = "ready"
  /\ fn = "DiameterCalculator.calculate"
  /\ result' = DiameterCalculator_calculate(args.points, args.isManifold)
  /\ pc' = "done"
  /\ UNCHANGED <<fn, args, globalThis>>

CallCombineSetsDiameter ==
  /\ pc = "ready"
  /\ fn = "DiameterCalculator.combineSetsDiameter"
  /\ result' = combineSetsDiameter(args.pointGroups)
  /\ pc' = "done"
  /\ UNCHANGED <<fn, args, globalThis>>

CallFindDiameterOnSurface ==
  /\ pc = "ready"
  /\ fn = "findDiameterOnSurface"
  /\ result' = findDiameterOnSurface(args.surfacePoints)
  /\ pc' = "done"
  /\ UNCHANGED <<fn, args, globalThis>>

CallFindDiameterParametric ==
  /\ pc = "ready"
  /\ fn = "findDiameterParametric"
  /\ result' = findDiameterParametric(args.points)
  /\ pc' = "done"
  /\ UNCHANGED <<fn, args, globalThis>>

NextDiameter ==
  \/ CallDiameterCalculate
  \/ CallCombineSetsDiameter
  \/ CallFindDiameterOnSurface
  \/ CallFindDiameterParametric

SpecDiameter == InitDiameter /\ [][NextDiameter]_vars

-----------------------------------------------------------------------------
(* Requests to the backend boundary: POST /api/analyze of                   *)
(* src/unnamed/part_008, with the bodies of src/unnamed/part_007 among them *)

RawSequence(formula, start, end) ==
  [k |-> "object", type |-> Str("sequence"), formula |-> formula, start |-> start, end |-> end]

RawInterval(start, end, openStart, openEnd) ==
  [k |-> "object", type |-> Str("interval"), start |-> start, end |-> end,
   openStart |-> openStart, openEnd |-> openEnd]

ValidRawPool ==
  { RawSequence(Str("1/n"), IntNum(1), IntNum(3)),
    RawSequence(Str("ln(n)"), IntNum(1), IntNum(2)),
    RawInterval(Zero, One, Bool(FALSE), Bool(FALSE)),
    RawInterval(Zero, One, Bool(TRUE), Bool(TRUE)) }

InvalidRawPool ==
  { Null,
    Str("sequence"),
    [k |-> "object", type |-> Str("invalid"), start |-> IntNum(1), end |-> IntNum(10)],
    [k |-> "object", type |-> Str("sequence"), start |-> IntNum(1), end |-> IntNum(10)],
    RawSequence(Str("  "), IntNum(1), IntNum(3)),
    RawSequence(Str("eval(n)"), IntNum(1), IntNum(3)),
    RawSequence(Str("n +"), IntNum(1), IntNum(3)),
    RawSequence(Str("1/n"), Half, IntNum(3)),
    RawSequence(Str("1/n"), IntNum(3), IntNum(1)),
    RawSequence(Str("1/n"), IntNum(1), Str("3")),
    [k |-> "object", type |-> Str("interval"), start |-> Zero, end |-> One,
     openEnd |-> Bool(FALSE)],
    RawInterval(One, Zero, Bool(FALSE), Bool(FALSE)),
    RawInterval(Zero, Infinity, Bool(FALSE), Bool(TRUE)) }

\* sequences around the cap of validators.ts line 90, one component each
LongSequences ==
  { RawSequence(Str("0.99999999995"), IntNum(start), IntNum(end)) :
      start \in {0, 1}, end \in {SequenceCap, SequenceCap + 1} }

Bodies ==
  { Null, Str("components"), [k |-> "object"],
    [k |-> "object", components |-> Str("1/n")] }
  \cup { [k |-> "object", components |-> JArray(items)] :
           items \in ListsUpTo(ValidRawPool \cup InvalidRawPool, MaxComponents) }
  \cup { [k |-> "object", components |-> JArray(<<c>>)] : c \in LongSequences }

InitController ==
  /\ pc = "ready"
  /\ fn = "analyzeController"
  /\ args \in [body : Bodies]
  /\ result = Null
  /\ globalThis = NoGlobals

\* one request, handled to its response: the handler has no await
CallAnalyzeController ==
  /\ pc = "ready"
  /\ fn = "analyzeController"
  /\ \E threw \in IF validateAnalyzeRequest(args.body).valid
                      /\ spreadMayThrow(asAnalyzeRequest(args.body))
                   THEN BOOLEAN ELSE {FALSE} :
       result' = analyzeController(args.body, threw)
  /\ pc' = "done"
  /\ UNCHANGED <<fn, args, globalThis>>

SpecController == InitController /\ [][CallAnalyzeController]_vars

-----------------------------------------------------------------------------
(* Two analysis requests in one JavaScript realm.  calculateAnalysis is     *)
(* synchronous, so the calls of the two requests run one after the other,   *)
(* in either order; pc, args and result hold one entry per request.         *)

Requests == {"a", "b"}

MaxRequestComponents == 1

RequestPool ==
  { IntervalComp(Zero, One, FALSE, FALSE),
    SequenceComp("1/n", "", 40),
    SequenceComp("custom", "1-1/n", 8),
    SequenceComp("custom", "n", 8),
    SequenceComp("custom", CountingFormula, 8) }

InitConcurrent ==
  /\ pc = [r \in Requests |-> "ready"]
  /\ fn = "calculateAnalysis"
  /\ args \in [Requests -> [components : ListsUpTo(RequestPool, MaxRequestComponents),
                            universe : {"R"}]]
  /\ result = [r \in Requests |-> Null]
  /\ globalThis = NoGlobals

\* the call of request r, from the global object the earlier calls left
CallRequest(r) ==
  /\ pc[r] = "ready"
  /\ \E call \in {calculateAnalysisWith(args[r].components, args[r].universe, globalThis)} :
       /\ result' = [result EXCEPT ![r] = call.analysis]
       /\ globalThis' = call.globals
  /\ pc' = [pc EXCEPT ![r] = "done"]
  /\ UNCHANGED <<fn, args>>

NextConcurrent == \E r \in Requests : CallRequest(r)

SpecConcurrent == InitConcurrent /\ [][NextConcurrent]_vars

-----------------------------------------------------------------------------
(* The React hook useSetAnalysis of src/unnamed/part_003 and the client     *)
(* analyzeSet it awaits.  Each analyze() call runs to its await (lines      *)
(* 160-164), the request is answered by the backend controller, and the     *)
(* call resumes when its response arrives (lines 165-169); responses of     *)
(* overlapping calls arrive in any order.  pc holds the position of each    *)
(* call, args the components of each call, result the state of the hook.    *)

MaxCalls == 2

HookCalls == 1..MaxCalls

HookState(analysisResult, loading, error) ==
  [result |-> analysisResult, loading |-> loading, error |-> error]

\* the component lists the calls are made with; the empty list is answered 400
HookRequests ==
  { <<RawInterval(Zero, One, Bool(FALSE), Bool(FALSE))>>,
    <<RawInterval(Zero, One, Bool(TRUE), Bool(TRUE))>>,
    <<RawSequence(Str("1/n"), IntNum(1), IntNum(3))>>,
    <<>> }

\* analyzeSet(components) of the client, lines 50-67: the value the promise
\* resolves with, or the message of the Error it rejects with
clientOutcome(response) ==
  IF response.status = 200 THEN [ok |-> TRUE, value |-> response.json]
  ELSE [ok |-> FALSE,
        message |-> IF "message" \in DOMAIN response.json THEN response.json.message
                    ELSE IF response.status = 400 THEN "API error: 400"
                    ELSE "API error: 500"]

analyzeSetClient(components) ==
  clientOutcome(analyzeController([k |-> "object", components |-> JArray(components)], FALSE))

\* lines 165-169: the state of the hook after the await has settled
afterAwait(hook, outcome) ==
  IF outcome.ok THEN HookState(outcome.value, FALSE, hook.error)
  ELSE HookState(hook.result, FALSE, Str(outcome.message))

InitHook ==
  /\ pc = [c \in HookCalls |-> "idle"]
  /\ fn = "useSetAnalysis"
  /\ args \in [HookCalls -> HookRequests]
  /\ result = HookState(Null, FALSE, Null)
  /\ globalThis = NoGlobals

\* analyze(components) up to its await (lines 160-164); the calls are
\* numbered in the order in which they are issued
Analyze(c) ==
  /\ pc[c] = "idle"
  /\ \A b \in HookCalls : b < c => pc[b] # "idle"
  /\ result' = HookState(result.result, TRUE, Null)
  /\ pc' = [pc EXCEPT ![c] = "awaiting"]
  /\ UNCHANGED <<fn, args, globalThis>>

\* the response of call c arrives and the call runs to its end (165-169)
Settle(c) ==
  /\ pc[c] = "awaiting"
  /\ result' = afterAwait(result, analyzeSetClient(args[c]))
  /\ pc' = [pc EXCEPT ![c] = "done"]
  /\ UNCHANGED <<fn, args, globalThis>>

NextHook ==
  \/ \E c \in HookCalls : Analyze(c)
  \/ \E c \in HookCalls : Settle(c)

SpecHook == InitHook /\ [][NextHook]_vars

-----------------------------------------------------------------------------
(* Properties *)

Done(f) == pc = "done" /\ fn = f

Components == Range(args.components)

IsGreatest(x, S) == x \in S /\ \A y \in S : Le(y, x)

IsLeast(x, S) == x \in S /\ \A y \in S : Le(x, y)

\* the bounds the universe-aware engine derives from a single component
OwnSups(c) == Range(componentContribution(c).sups)

OwnInfs(c) == Range(componentContribution(c).infs)

\* the unbounded components as the claims describe them: an interval that
\* reaches +Infinity, or a custom sequence the divergence detector flags
UnboundedAboveComp(c) ==
  \/ c.type = "interval" /\ c.interval # Null /\ c.interval.end = Infinity
  \/ /\ c.type = "sequence" /\ c.sequence # Null
     /\ c.sequence.type = "custom" /\ c.sequence.customFormula \in Formulas
     /\ analyzeSequenceOf[c.sequence.customFormula].isUnboundedAbove

UnboundedBelowComp(c) ==
  \/ c.type = "interval" /\ c.interval # Null /\ c.interval.start = NegInfinity
  \/ /\ c.type = "sequence" /\ c.sequence # Null
     /\ c.sequence.type = "custom" /\ c.sequence.customFormula \in Formulas
     /\ analyzeSequenceOf[c.sequence.customFormula].isUnboundedBelow

FrontendUnboundedAbove(c) ==
  IF c.type = "interval" THEN parseInfinity(c.end) = Infinity
  ELSE calculateComponentBounds(c).isUnbounded

FrontendUnboundedBelow(c) ==
  IF c.type = "interval" THEN parseInfinity(c.start) = NegInfinity
  ELSE calculateComponentBounds(c).isUnbounded

\* C1 (union law): when no component is unbounded above, the supremum that
\* calculateAnalysis(components, 'R') and calculateBounds report is the largest
\* of the suprema of the single components (null when no component has one),
\* whatever the order of the list; when no component is unbounded below the
\* infimum is the smallest of their infima.
C1_UnionLaw ==
  /\ (Done("calculateAnalysis") /\ args.universe = "R") =>
       LET sups == {b.val : b \in UNION {OwnSups(c) : c \in Components}}
           infs == {b.val : b \in UNION {OwnInfs(c) : c \in Components}}
       IN /\ (\A c \in Components : ~UnboundedAboveComp(c)) =>
               IF sups = {} THEN result.sup = Null ELSE IsGreatest(result.sup, sups)
          /\ (\A c \in Components : ~UnboundedBelowComp(c)) =>
               IF infs = {} THEN result.inf = Null ELSE IsLeast(result.inf, infs)
  /\ Done("calculateBounds") =>
       LET sups == {calculateComponentBounds(c).supremum : c \in Components} \ {Null}
           infs == {calculateComponentBounds(c).infimum : c \in Components} \ {Null}
       IN /\ (\A c \in Components : ~FrontendUnboundedAbove(c)) =>
               IF sups = {} THEN result.supremum = Null
               ELSE IsGreatest(result.supremum, sups)
          /\ (\A c \in Components : ~FrontendUnboundedBelow(c)) =>
               IF infs = {} THEN result.infimum = Null
               ELSE IsLeast(result.infimum, infs)

\* C1 witness: two components with different suprema, the larger one first,
\* and the union reports the larger
C1_Witness ==
  /\ Done("calculateAnalysis") /\ args.universe = "R"
  /\ Len(args.components) = 2
  /\ \A c \in Components : ~UnboundedAboveComp(c)
  /\ \E a \in OwnSups(args.components[1]), b \in OwnSups(args.components[2]) :
        Lt(b.val, a.val) /\ result.sup = a.val

\* C2: one component that is unbounded above makes the result unbounded
\* above (boundedAbove = false, theoreticalSup = 'infinity') whatever the
\* other components and its position; one component unbounded below gives
\* boundedBelow = false and inf = '-infinity'.
C2_UnboundedDominates ==
  Done("calculateAnalysis") =>
    /\ (\E c \in Components : UnboundedAboveComp(c)) =>
          ~result.boundedAbove /\ result.theoreticalSup = Str("infinity")
    /\ (\E c \in Components : UnboundedBelowComp(c)) =>
          ~result.boundedBelow /\ result.inf = Str("-infinity")

\* C2 witness: a bounded component with a numeric supremum first, an
\* unbounded one after it
C2_Witness ==
  /\ Done("calculateAnalysis")
  /\ Len(args.components) = 2
  /\ OwnSups(args.components[1]) # {}
  /\ UnboundedAboveComp(args.components[2])
  /\ result.theoreticalSup = Str("infinity")

\* C3: under universe 'R', max is non-null exactly when sup is a number and
\* some component's own supremum lies within 1e-9 of sup and is attained;
\* then max = sup.  The same for min with inf.
C3_MaxIffAttained ==
  (Done("calculateAnalysis") /\ args.universe = "R") =>
    LET sups == UNION {OwnSups(c) : c \in Components}
        infs == UNION {OwnInfs(c) : c \in Components}
    IN /\ result.max # Null <=>
            (IsNum(result.sup)
             /\ \E b \in sups : b.isInSet /\ AbsDiffLt(b.val, result.sup, Ticks(1000)))
       /\ result.max # Null => result.max = result.sup
       /\ result.min # Null <=>
            (IsNum(result.inf)
             /\ \E b \in infs : b.isInSet /\ AbsDiffLt(b.val, result.inf, Ticks(1000)))
       /\ result.min # Null => result.min = result.inf

\* C3 witness: the supremum is that of a component that does not attain it,
\* another component attains a value within 1e-9 of it, and max is reported
C3_Witness ==
  /\ Done("calculateAnalysis") /\ args.universe = "R"
  /\ result.max # Null
  /\ \E b \in UNION {OwnSups(c) : c \in Components} : b.val = result.sup /\ ~b.isInSet
  /\ \E b \in UNION {OwnSups(c) : c \in Components} : b.val # result.sup /\ b.isInSet

\* the evaluated sequence values and the interval records of a backend request
BackendValues == extractSetData(args.components).values

BackendIntervals == Range(extractSetData(args.components).intervalBounds)

SingleBackendInterval ==
  Len(args.components) = 1 /\ args.components[1].type = "interval"

\* C4 as stated: in analyzeSet, max is non-null (and equal to sup) exactly
\* when some evaluated sequence value is within 1e-10 of sup or some interval
\* whose end EQUALS sup is closed at the end; the same for min, inf and
\* openStart; a single [a,b) has max = null and min = a, a single (a,b] has
\* max = b and min = null.
C4_MaxIffMemberExact ==
  Done("analyzeSet") =>
    /\ result.max # Null <=>
         (result.sup # Null
          /\ (\/ \E i \in DOMAIN BackendValues : AbsDiffLt(BackendValues[i], result.sup, Ticks(100))
              \/ \E iv \in BackendIntervals : iv.end = result.sup /\ ~iv.openEnd))
    /\ result.max # Null => result.max = result.sup
    /\ result.min # Null <=>
         (result.inf # Null
          /\ (\/ \E i \in DOMAIN BackendValues : AbsDiffLt(BackendValues[i], result.inf, Ticks(100))
              \/ \E iv \in BackendIntervals : iv.start = result.inf /\ ~iv.openStart))
    /\ result.min # Null => result.min = result.inf

\* C4 (amended): in analyzeSet, max is non-null (and equal to sup) exactly
\* when some evaluated sequence value is within 1e-10 of sup or some interval
\* whose end is WITHIN 1e-10 of sup is closed at the end; the same for min,
\* inf and openStart; a single [a,b) has sup = b, max = null and min = a, a
\* single (a,b] has max = b and min = null.
C4_MaxIffMemberWithinTolerance ==
  Done("analyzeSet") =>
    /\ result.max # Null <=>
         (result.sup # Null
          /\ (\/ \E i \in DOMAIN BackendValues : AbsDiffLt(BackendValues[i], result.sup, Ticks(100))
              \/ \E iv \in BackendIntervals :
                    AbsDiffLt(iv.end, result.sup, Ticks(100)) /\ ~iv.openEnd))
    /\ result.max # Null => result.max = result.sup
    /\ result.min # Null <=>
         (result.inf # Null
          /\ (\/ \E i \in DOMAIN BackendValues : AbsDiffLt(BackendValues[i], result.inf, Ticks(100))
              \/ \E iv \in BackendIntervals :
                    AbsDiffLt(iv.start, result.inf, Ticks(100)) /\ ~iv.openStart))
    /\ result.min # Null => result.min = result.inf
    /\ SingleBackendInterval =>
         LET iv == args.components[1]
         IN /\ result.sup = iv.end /\ result.inf = iv.start
            /\ result.max = (IF iv.openEnd THEN Null ELSE iv.end)
            /\ result.min = (IF iv.openStart THEN Null ELSE iv.start)

\* C4 witness: sup is the end of an interval that is open there, no interval
\* that ends exactly at sup is closed, no sequence is present, and yet max is
\* reported because a closed interval ends within 1e-10 of sup
C4_Witness ==
  /\ Done("analyzeSet")
  /\ BackendValues = <<>>
  /\ result.max # Null
  /\ \A iv \in BackendIntervals : iv.end = result.sup => iv.openEnd
  /\ \E iv \in BackendIntervals : iv.end # result.sup /\ ~iv.openEnd

\* a component of the universe-aware engine that yields no point and no
\* bound: an interval with start > end or without parameters, a finite set
\* without points, a sequence for which neither getSequencePoints nor the
\* bounds table nor the divergence detector yields anything
ContributesNothing(c) ==
  CASE c.type = "interval" -> c.interval = Null \/ Gt(c.interval.start, c.interval.end)
    [] c.type = "finite"   -> c.finite = Null \/ c.finite.points = <<>>
    [] c.type = "sequence" ->
         \/ c.sequence = Null
         \/ /\ getSequencePoints(c.sequence.type, c.sequence.limit, c.sequence.customFormula) = <<>>
            /\ OwnSups(c) = {} /\ OwnInfs(c) = {}
            /\ ~UnboundedAboveComp(c) /\ ~UnboundedBelowComp(c)
    [] OTHER -> TRUE

\* C5: when no component of the list contributes a point or a bound (the
\* empty list included), calculateAnalysis returns the empty-set result:
\* isEmpty, sup = inf = max = min = null, bounded both ways, no gap.
C5_EmptyResult ==
  (Done("calculateAnalysis") /\ \A c \in Components : ContributesNothing(c)) =>
    /\ result.isEmpty
    /\ result.sup = Null /\ result.inf = Null /\ result.max = Null /\ result.min = Null
    /\ result.boundedAbove /\ result.boundedBelow
    /\ ~result.completenessGap

IsClosedBoundedInterval(c) ==
  /\ c.type = "interval" /\ c.interval # Null
  /\ ~c.interval.leftOpen /\ ~c.interval.rightOpen
  /\ isFinite(c.interval.start) /\ isFinite(c.interval.end)
  /\ Le(c.interval.start, c.interval.end)

\* C6: in the metric-space calculateAnalysis a single closed bounded interval
\* [a,b], a <= b, has sup = max = b, inf = min = a, diameter = b - a and the
\* witness points [a] and [b].
C6_ClosedInterval ==
  (Done("calculateAnalysisMetric") /\ Len(args.components) = 1
   /\ IsClosedBoundedInterval(args.components[1])) =>
    LET a == args.components[1].interval.start
        b == args.components[1].interval.end
    IN /\ result.sup = b /\ result.max = b
       /\ result.inf = a /\ result.min = a
       /\ result.diameter = Sub(b, a)
       /\ result.diameterInfo.value = Sub(b, a)
       /\ result.diameterInfo.point1 = <<a>>
       /\ result.diameterInfo.point2 = <<b>>

\* C6 witness: [0,1] alone gives sup = max = 1, inf = min = 0, diameter = 1
C6_Witness ==
  /\ Done("calculateAnalysisMetric")
  /\ args.components = <<IntervalComp(Zero, One, FALSE, FALSE)>>
  /\ result.sup = One /\ result.max = One /\ result.inf = Zero /\ result.min = Zero
  /\ result.diameter = One

InCatalogue(x) ==
  \E irr \in {SQRT2, PI, E, SQRT3, SQRT5} : AbsDiffLt(x, irr, Ticks(100000))

\* C7: completenessGap is true exactly when universe = 'Q' and theoreticalSup
\* is a number within 1e-7 of sqrt 2, pi, e, sqrt 3 or sqrt 5; then sup = null
\* and max = null while theoreticalSup keeps the value the analysis under 'R'
\* reports as sup and boundedAbove stays true; otherwise sup = theoreticalSup.
C7_GapRule ==
  Done("calculateAnalysis") =>
    /\ result.completenessGap <=>
         (args.universe = "Q" /\ IsNum(result.theoreticalSup)
          /\ InCatalogue(result.theoreticalSup))
    /\ result.completenessGap =>
         /\ result.sup = Null /\ result.max = Null
         /\ result.theoreticalSup = calculateAnalysis(args.components, "R").sup
         /\ result.boundedAbove
    /\ ~result.completenessGap => result.sup = result.theoreticalSup

\* C7 witness: the Dedekind cut (-inf, sqrt 2) under 'Q'
C7_Witness ==
  /\ Done("calculateAnalysis") /\ args.universe = "Q"
  /\ args.components = <<IntervalComp(NegInfinity, SQRT2, TRUE, TRUE)>>
  /\ result.completenessGap /\ result.sup = Null /\ result.theoreticalSup = SQRT2

\* C8: the preset sequence '1/n' alone has sup = 1 attained and inf = 0 not
\* attained, in calculateAnalysis (any universe, any number of terms) and in
\* calculateBounds.
C8_PresetOneOverN ==
  /\ (Done("calculateAnalysis") /\ Len(args.components) = 1
      /\ args.components[1].type = "sequence" /\ args.components[1].sequence # Null
      /\ args.components[1].sequence.type = "1/n") =>
       /\ result.sup = One /\ result.max = One
       /\ result.inf = Zero /\ result.min = Null
  /\ (Done("calculateBounds") /\ Len(args.components) = 1
      /\ args.components[1].type = "sequence"
      /\ args.components[1].sequenceFormula = Str("1/n")
      /\ args.components[1].isCustomFormula # Bool(TRUE)) =>
       /\ result.supremum = One /\ result.hasMax
       /\ result.infimum = Zero /\ ~result.hasMin

\* C8 witness: '1/n' with 5 terms analysed by calculateAnalysis
C8_Witness ==
  /\ Done("calculateAnalysis")
  /\ args.components = <<SequenceComp("1/n", "", 5)>>
  /\ result.max = One /\ result.inf = Zero /\ result.min = Null

\* C9: whenever calculateAnalysis reports boundedAbove = true and
\* isEmpty = false, sup is a finite real number.
C9_BoundedSupFinite ==
  (Done("calculateAnalysis") /\ result.boundedAbove /\ ~result.isEmpty) =>
    isFinite(result.sup)

\* the points of a metric-space component that are members by listing: the
\* points of a finite set and the generated terms of a sequence
ExplicitPoints(c) ==
  CASE c.type = "finite" /\ c.finite # Null -> Range(c.finite.points)
    [] c.type = "sequence" /\ c.sequence # Null ->
         Range(getSequencePointsMetric(c.sequence.type, c.sequence.limit,
                                       c.sequence.customFormula))
    [] OTHER -> {}

\* C10: in the metric-space calculateAnalysis a non-null max equals sup and
\* is attained by some component, through an interval closed at the end sup
\* or through a listed point; the same for min.
C10_MaxAttained ==
  Done("calculateAnalysisMetric") =>
    /\ result.max # Null =>
         /\ result.max = result.sup
         /\ \E c \in Components :
               \/ /\ c.type = "interval" /\ c.interval # Null
                  /\ c.interval.end = result.max /\ ~c.interval.rightOpen
               \/ result.max \in ExplicitPoints(c)
    /\ result.min # Null =>
         /\ result.min = result.inf
         /\ \E c \in Components :
               \/ /\ c.type = "interval" /\ c.interval # Null
                  /\ c.interval.start = result.min /\ ~c.interval.leftOpen
               \/ result.min \in ExplicitPoints(c)

\* C11: for every non-empty component list the metric-space analysis reports
\* isCompact true exactly when boundedAbove, boundedBelow and
\* isCompleteInSpace are all true.
C11_HeineBorel ==
  Done("calculateAnalysisMetric") /\ Len(args.components) > 0 =>
    ((result.isCompact = Bool(TRUE)) <=>
       (result.boundedAbove /\ result.boundedBelow
          /\ result.isCompleteInSpace = Bool(TRUE)))

\* a bounded set whose sequence limit is missing: bounded, not complete,
\* not compact
C11_Witness ==
  /\ Done("calculateAnalysisMetric") /\ Len(args.components) > 0
  /\ result.boundedAbove /\ result.boundedBelow
  /\ result.isCompleteInSpace = Bool(FALSE)
  /\ result.isCompact = Bool(FALSE)

\* the largest distance between two points of the list is v
IsMaxPairwiseDistance(points, v) ==
  /\ \A i, j \in DOMAIN points : Le(euclideanDistance(points[i], points[j]), v)
  /\ \E i, j \in DOMAIN points : euclideanDistance(points[i], points[j]) = v

IsPointOf(points, p) == \E i \in DOMAIN points : points[i] = p

\* C12: on every list of 2 to 99 points, whatever isManifold,
\* DiameterCalculator.calculate returns the largest pairwise distance of the
\* list, with two points of the list at exactly that distance.
C12_ExactBelow100 ==
  Done("DiameterCalculator.calculate")
    /\ Len(args.points) >= 2 /\ Len(args.points) < ExactLimit =>
      /\ IsMaxPairwiseDistance(args.points, result.value)
      /\ IsPointOf(args.points, result.point1)
      /\ IsPointOf(args.points, result.point2)
      /\ euclideanDistance(result.point1, result.point2) = result.value

\* the point list of a finished call that ran optimizedDiameter
RanOptimizedDiameter ==
  \/ Done("findDiameterOnSurface") /\ Len(args.surfacePoints) > 0
  \/ Done("DiameterCalculator.calculate") /\ Len(args.points) > 1
       /\ ~(args.isManifold /\ Len(args.points) > ManifoldLimit)

OptimizedDiameterPoints ==
  IF fn = "findDiameterOnSurface" THEN args.surfacePoints ELSE args.points

\* C13: on every list of at least 100 points the value of optimizedDiameter
\* is at least 0, at least every pairwise distance inside the strided
\* sample, and at most the largest pairwise distance of the whole list.
C13_SampledRefineBound ==
  RanOptimizedDiameter /\ Len(OptimizedDiameterPoints) >= ExactLimit =>
    LET points == OptimizedDiameterPoints
        sample == sampledPoints(points)
    IN /\ Ge(result.value, Zero)
       /\ \A i, j \in DOMAIN sample :
            Le(euclideanDistance(sample[i], sample[j]), result.value)
       /\ \E i, j \in DOMAIN points :
            Ge(euclideanDistance(points[i], points[j]), result.value)

\* a strided sample that misses points: the refinement raises the value
\* above the sample's and still stays below the exact diameter
C13_Witness ==
  /\ RanOptimizedDiameter /\ Len(OptimizedDiameterPoints) >= ExactLimit
  /\ Len(sampledPoints(OptimizedDiameterPoints)) < Len(OptimizedDiameterPoints)
  /\ Gt(result.value, allPairsScan(sampledPoints(OptimizedDiameterPoints)).value)
  /\ \E i, j \in DOMAIN OptimizedDiameterPoints :
       Gt(euclideanDistance(OptimizedDiameterPoints[i], OptimizedDiameterPoints[j]),
          result.value)

\* the point list a finished diameter call was given (for
\* combineSetsDiameter, the points of all its groups)
DiameterCallPoints ==
  CASE fn = "findDiameterOnSurface" -> args.surfacePoints
    [] fn = "DiameterCalculator.combineSetsDiameter" ->
         FlatMap(LAMBDA group : group, args.pointGroups)
    [] OTHER -> args.points

DiameterCallDone ==
  pc = "done" /\ fn \in {"DiameterCalculator.calculate",
                          "DiameterCalculator.combineSetsDiameter",
                          "findDiameterOnSurface", "findDiameterParametric"}

\* C14: every exported diameter entry point returns value null for the
\* empty point list and value 0 with the witness (p, p) for the list
\* holding the single point p.
C14_DegenerateInputs ==
  DiameterCallDone =>
    /\ Len(DiameterCallPoints) = 0 => result.value = Null
    /\ Len(DiameterCallPoints) = 1 =>
         result = DiameterInfo(Zero, DiameterCallPoints[1], DiameterCallPoints[1])

\* a custom sequence whose formula evaluates at no index that
\* analyzeSequence looks at
FormulaFailsEverywhere(c) ==
  /\ c.type = "sequence" /\ c.sequence # Null
  /\ c.sequence.type = "custom" /\ c.sequence.customFormula # ""
  /\ \A n \in (1..SmallSampleN) \cup {TailIndex1, TailIndex2, TailIndex3} :
       safeEvaluate(c.sequence.customFormula, n) = Null

\* C17: in the universe-aware calculateAnalysis a custom sequence whose
\* formula fails at every index contributes nothing: the result of a list
\* holding such components is the result of the list without them.
C17_FailedFormulaExcluded ==
  Done("calculateAnalysis")
    /\ (\E i \in DOMAIN args.components : FormulaFailsEverywhere(args.components[i])) =>
      result = calculateAnalysis(
                 SelectSeq(args.components, LAMBDA c : ~FormulaFailsEverywhere(c)),
                 args.universe)

\* the metric-space engine was called on one interval with finite ends
\* a < b
SingleBoundedInterval ==
  /\ Done("calculateAnalysisMetric") /\ Len(args.components) = 1
  /\ args.components[1].type = "interval" /\ args.components[1].interval # Null
  /\ isFinite(args.components[1].interval.start)
  /\ isFinite(args.components[1].interval.end)
  /\ Lt(args.components[1].interval.start, args.components[1].interval.end)

\* C19: the metric-space analysis of a bounded open interval (a,b) alone is
\* bounded with diameter b - a, not complete and not compact; the closed
\* interval [a,b] alone is compact.
C19_OpenIntervalNotCompact ==
  SingleBoundedInterval =>
    LET iv == args.components[1].interval
    IN /\ result.isBounded /\ result.diameter = Sub(iv.end, iv.start)
       /\ iv.leftOpen /\ iv.rightOpen =>
            result.isCompleteInSpace = Bool(FALSE) /\ result.isCompact = Bool(FALSE)
       /\ ~iv.leftOpen /\ ~iv.rightOpen => result.isCompact = Bool(TRUE)

\* the boundedness and compactness flags of an analysis
BoundedCompactFlags(r) == <<r.isBounded, r.boundedAbove, r.boundedBelow, r.isCompact>>

\* C20: the spaceDomain argument of the metric-space calculateAnalysis
\* affects the bounded / compact determinations: for some component list
\* the flags isBounded, boundedAbove, boundedBelow, isCompact of the call
\* with a bounded space domain differ from those of the call without one
\* (a statement about the engine, the same in every state of its calls).
C20_SpaceDomainAffectsFlags ==
  fn = "calculateAnalysisMetric" /\ \E components \in ListsUpTo(FunctionMetricPool, MaxComponents) :
    \E dimension \in {2, 3}, domain \in BoundedSpaceDomains :
      BoundedCompactFlags(calculateAnalysisMetric(components, dimension, domain))
        # BoundedCompactFlags(calculateAnalysisMetric(components, dimension, Undefined))

\* the bodies of invalidTestCases, part_007 lines 178-216
InvalidTestCases ==
  { [k |-> "object", components |-> JArray(<<>>)],
    [k |-> "object"],
    [k |-> "object", components |->
       JArray(<<[k |-> "object", type |-> Str("invalid"), start |-> IntNum(1),
                 end |-> IntNum(10)]>>)],
    [k |-> "object", components |->
       JArray(<<[k |-> "object", type |-> Str("sequence"), start |-> IntNum(1),
                 end |-> IntNum(10)]>>)],
    [k |-> "object", components |->
       JArray(<<[k |-> "object", type |-> Str("interval"), start |-> Zero, end |-> One,
                 openEnd |-> Bool(FALSE)]>>)] }

\* C15: boundary protocol of analyzeController.  A body the validator
\* reports invalid is answered 400 with the validator's non-empty error
\* list and analyzeSet is not invoked; a valid body has analyzeSet invoked
\* exactly once and is answered 200 with its result, unless analyzeSet
\* threw, which is the only way to a 500; the five bodies of
\* invalidTestCases are answered 400.
C15_BoundaryProtocol ==
  Done("analyzeController") =>
    /\ ~validateAnalyzeRequest(args.body).valid =>
         /\ result.status = 400
         /\ result.json.details = validateAnalyzeRequest(args.body).errors
         /\ result.json.details # <<>>
         /\ result.analyzeSetCalls = 0
    /\ validateAnalyzeRequest(args.body).valid =>
         /\ result.analyzeSetCalls = 1
         /\ result.status \in {200, 500}
         /\ result.status = 200 => result.json = analyzeSet(asAnalyzeRequest(args.body))
         /\ ~result.threw => result.status = 200
    /\ result.status = 500 => result.threw
    /\ args.body \in InvalidTestCases => result.status = 400

\* a two-component body whose second component is malformed has been
\* answered 400 with one error for component 1 and no call of analyzeSet
C15_Witness ==
  /\ Done("analyzeController")
  /\ isObject(args.body)
  /\ field(args.body, "components").k = "array"
  /\ Len(field(args.body, "components").items) = 2
  /\ validateComponent(field(args.body, "components").items[1], 0) = <<>>
  /\ result.status = 400
  /\ Len(result.json.details) = 1
  /\ result.json.details[1].component = 1
  /\ result.analyzeSetCalls = 0

\* C16: every sequence component of a body that validateAnalyzeRequest
\* accepts makes evaluateSequence iterate at most 100000 times:
\* acceptance implies end - start + 1 <= 100000.
C16_SequenceCap ==
  (fn = "analyzeController" /\ validateAnalyzeRequest(args.body).valid) =>
    \A i \in DOMAIN asAnalyzeRequest(args.body).components :
      asAnalyzeRequest(args.body).components[i].type = "sequence" =>
        iterationsOf(asAnalyzeRequest(args.body).components[i]) <= SequenceCap

\* C18: statelessness.  Whatever the order in which the calls of the
\* requests run, the result of every finished request equals the result of
\* running that request alone in a fresh realm, a function of its arguments
\* only.
C18_Stateless ==
  fn = "calculateAnalysis" /\ DOMAIN pc = Requests =>
    \A r \in Requests :
      pc[r] = "done" =>
        result[r] = calculateAnalysisWith(args[r].components, args[r].universe,
                                          NoGlobals).analysis

\* C21: on every list of at least 100 points the pair returned by
\* optimizedDiameter realizes the returned value: the distance between
\* point1 and point2 is the value.
C21_WitnessRealizesValue ==
  RanOptimizedDiameter /\ Len(OptimizedDiameterPoints) >= ExactLimit =>
    euclideanDistance(result.point1, result.point2) = result.value

\* C22: for every list of n >= 100 points the strided sample that
\* optimizedDiameter scans holds exactly min(200, n) points.
C22_SampleSize ==
  RanOptimizedDiameter /\ Len(OptimizedDiameterPoints) >= ExactLimit =>
    Len(sampledPoints(OptimizedDiameterPoints)) =
      IF Len(OptimizedDiameterPoints) < MaxSampleSize THEN Len(OptimizedDiameterPoints)
      ELSE MaxSampleSize

\* the custom sequences of a universe-aware call that go through
\* analyzeSequence
IsCustomSequence(c) ==
  /\ c.type = "sequence" /\ c.sequence # Null
  /\ c.sequence.type = "custom" /\ c.sequence.customFormula \in Formulas

\* the values of the formula at the indices 1000, 10000, 100000
TailValues(formula) ==
  <<safeEvaluate(formula, TailIndex1), safeEvaluate(formula, TailIndex2),
    safeEvaluate(formula, TailIndex3)>>

TailExceeds(t) == \E i \in 1..3 : t[i] # Null /\ Gt(t[i], IntNum(10000))

TailFallsBelow(t) == \E i \in 1..3 : t[i] # Null /\ Lt(t[i], IntNum(-10000))

TailClimbs(t) ==
  /\ \A i \in 1..3 : t[i] # Null
  /\ Gt(t[3], t[2]) /\ Gt(t[2], t[1])
  /\ Gt(Sub(t[3], t[2]), Milli(100))

TailDescends(t) ==
  /\ \A i \in 1..3 : t[i] # Null
  /\ Lt(t[3], t[2]) /\ Lt(t[2], t[1])
  /\ Gt(Sub(t[2], t[3]), Milli(100))

\* C23: analyzeSequence flags a custom sequence unbounded above exactly when
\* an evaluated tail value (indices 1000, 10000, 100000) exceeds 10000 or all
\* three evaluate and climb strictly with t3 - t2 > 0.1, and unbounded below
\* exactly in the mirrored cases; a flagged component contributes no numeric
\* sup (resp. inf) to calculateAnalysis, whose result is then unbounded on
\* that side.
C23_DivergenceDetector ==
  Done("calculateAnalysis") =>
    \A i \in DOMAIN args.components :
      IsCustomSequence(args.components[i]) =>
        LET formula == args.components[i].sequence.customFormula
            t == TailValues(formula)
        IN /\ analyzeSequenceOf[formula].isUnboundedAbove <=> (TailExceeds(t) \/ TailClimbs(t))
           /\ analyzeSequenceOf[formula].isUnboundedBelow <=>
                (TailFallsBelow(t) \/ TailDescends(t))
           /\ (TailExceeds(t) \/ TailClimbs(t)) =>
                /\ componentContribution(args.components[i]).sups = <<>>
                /\ ~result.boundedAbove
                /\ result.theoreticalSup = Str("infinity")
           /\ (TailFallsBelow(t) \/ TailDescends(t)) =>
                /\ componentContribution(args.components[i]).infs = <<>>
                /\ ~result.boundedBelow
                /\ result.inf = Str("-infinity")

\* a custom sequence flagged by the slow-divergence test alone (no tail
\* value above 10000) next to a bounded component: the result is unbounded
\* above and bounded below
C23_Witness ==
  /\ Done("calculateAnalysis")
  /\ Len(args.components) = 2
  /\ \E i \in DOMAIN args.components :
       /\ IsCustomSequence(args.components[i])
       /\ TailClimbs(TailValues(args.components[i].sequence.customFormula))
       /\ ~TailExceeds(TailValues(args.components[i].sequence.customFormula))
  /\ ~result.boundedAbove
  /\ result.boundedBelow
  /\ result.inf # Null

\* the sequence components of a metric-space call
IsSequenceComp(c) == c.type = "sequence" /\ c.sequence # Null

\* the terms the metric-space engine generates for a sequence component
TermsOf(c) ==
  getSequencePointsMetric(c.sequence.type, c.sequence.limit, c.sequence.customFormula)

\* membership of the real number v in an interval or finite component of
\* the union
ContainsValue(components, v) ==
  \E i \in DOMAIN components :
    \/ /\ components[i].type = "interval" /\ components[i].interval # Null
       /\ (IF components[i].interval.leftOpen THEN Lt(components[i].interval.start, v)
           ELSE Le(components[i].interval.start, v))
       /\ (IF components[i].interval.rightOpen THEN Lt(v, components[i].interval.end)
           ELSE Le(v, components[i].interval.end))
    \/ /\ components[i].type = "finite" /\ components[i].finite # Null
       /\ \E k \in DOMAIN components[i].finite.points : components[i].finite.points[k] = v

\* the limit of the sequence a component stands for, Null when it has none:
\* 1/n, (-1)^n/n, 0.5^n and 1/(n-1) tend to 0, 1-1/n tends to 1
LimitOf(c) ==
  CASE c.sequence.type \in {"1/n", "harmonic", "alternating", "geometric"} -> Zero
    [] c.sequence.type = "custom" /\ c.sequence.customFormula = "1-1/n" -> One
    [] c.sequence.type = "custom" /\ c.sequence.customFormula = "1/(n-1)" -> Zero
    [] OTHER -> Null

RanParametric ==
  \/ Done("findDiameterParametric") /\ Len(args.points) >= 2
  \/ Done("DiameterCalculator.calculate") /\ args.isManifold
       /\ Len(args.points) > ManifoldLimit

\* one round of the ascent: the scan for point1, then the scan for point2
AscentRound(points, cur) == improvePoint2(points, improvePoint1(points, cur))

\* the rounds an ascent from cur executes when at most iter are allowed:
\* the round that improves nothing is executed and is the last
RECURSIVE RoundsFrom(_, _, _)
RoundsFrom(points, cur, iter) ==
  IF iter = 0 THEN 0
  ELSE IF AscentRound(points, cur) = cur THEN 1
  ELSE 1 + RoundsFrom(points, AscentRound(points, cur), iter - 1)

StartPair(points, start, startStep) ==
  Ascent(points[start * startStep + 1],
         points[((start * startStep + Len(points) \div 2) % Len(points)) + 1],
         euclideanDistance(points[start * startStep + 1],
                           points[((start * startStep + Len(points) \div 2) % Len(points)) + 1]))

\* the final pairs of the K = min(10, floor(n / 10)) starts
FinalsOf(points) ==
  LET K == IF Len(points) \div 10 < 10 THEN Len(points) \div 10 ELSE 10
  IN [start \in 0..(K - 1) |-> ascentOfStart(points, start, Len(points) \div K)]

\* C25: on every list of at least 2 points findDiameterParametric tries
\* K = min(10, floor(n / 10)) starts; each start executes at most 50 rounds
\* and ends on a pair that a further round would not improve, unless the
\* 50 rounds are used up; the returned value is the largest final distance
\* of the starts (0 when there is no start), no final distance exceeds it,
\* and the returned pair is at exactly that distance.
C25_MultiStartKeepsBest ==
  RanParametric =>
    /\ numStartsOf(Len(args.points)) =
         (IF Len(args.points) \div 10 < 10 THEN Len(args.points) \div 10 ELSE 10)
    /\ \A start \in DOMAIN FinalsOf(args.points) :
         LET first == StartPair(args.points, start,
                                Len(args.points) \div Cardinality(DOMAIN FinalsOf(args.points)))
             final == FinalsOf(args.points)[start]
         IN /\ RoundsFrom(args.points, first, ParametricIterations) <= 50
            /\ \/ AscentRound(args.points, final) = final
               \/ RoundsFrom(args.points, first, ParametricIterations) = 50
            /\ euclideanDistance(final.point1, final.point2) = final.dist
            /\ Le(final.dist, result.value)
    /\ \/ \E start \in DOMAIN FinalsOf(args.points) :
            FinalsOf(args.points)[start].dist = result.value
       \/ result.value = Zero
    /\ euclideanDistance(result.point1, result.point2) = result.value

\* several starts that end at different distances, one of them after a
\* round that improved its pair, the best of them returned
C25_Witness ==
  /\ RanParametric
  /\ numStartsOf(Len(args.points)) >= 2
  /\ \E a, b \in DOMAIN FinalsOf(args.points) :
       /\ Lt(FinalsOf(args.points)[a].dist, FinalsOf(args.points)[b].dist)
       /\ FinalsOf(args.points)[b].dist = result.value
  /\ \E start \in DOMAIN FinalsOf(args.points) :
       RoundsFrom(args.points,
                  StartPair(args.points, start,
                            Len(args.points) \div numStartsOf(Len(args.points))),
                  ParametricIterations) >= 2

\* C26: when the frontend calculateBounds returns hasMax, some component
\* whose own supremum is the supremum of the union has hasMax; when it
\* returns hasMin, some component whose own infimum is the infimum of the
\* union has hasMin.
C26_UnionAttainment ==
  Done("calculateBounds") =>
    /\ result.hasMax =>
         \E i \in DOMAIN args.components :
           /\ calculateComponentBounds(args.components[i]).supremum = result.supremum
           /\ calculateComponentBounds(args.components[i]).hasMax
    /\ result.hasMin =>
         \E i \in DOMAIN args.components :
           /\ calculateComponentBounds(args.components[i]).infimum = result.infimum
           /\ calculateComponentBounds(args.components[i]).hasMin

\* C27: in the universe-aware calculateAnalysis under 'R' and in the backend
\* analyzeSet, when sup and inf of the result are the same number, max and
\* min are both null or both that number.
C27_DegenerateAttainment ==
  (/\ \/ Done("calculateAnalysis") /\ args.universe = "R"
      \/ Done("analyzeSet")
   /\ IsNum(result.sup)
   /\ result.sup = result.inf) =>
    \/ result.max = Null /\ result.min = Null
    \/ result.max = result.sup /\ result.min = result.sup

\* C28: for every request that validateAnalyzeRequest accepts, the result
\* of analyzeSet has boundedAbove and boundedBelow true, and sup and inf are
\* both null or both finite numbers with inf <= sup.
C28_BackendBounded ==
  (Done("analyzeController") /\ result.status = 200) =>
    /\ result.json.boundedAbove
    /\ result.json.boundedBelow
    /\ \/ result.json.sup = Null /\ result.json.inf = Null
       \/ /\ isFinite(result.json.sup) /\ isFinite(result.json.inf)
          /\ Le(result.json.inf, result.json.sup)

\* an accepted request with an interval and a sequence, answered with
\* finite bounds inf < sup
C28_Witness ==
  /\ Done("analyzeController")
  /\ result.status = 200
  /\ \E i, j \in DOMAIN args.body.components.items :
       /\ args.body.components.items[i].type = Str("interval")
       /\ args.body.components.items[j].type = Str("sequence")
  /\ isFinite(result.json.sup)
  /\ isFinite(result.json.inf)
  /\ Lt(result.json.inf, result.json.sup)

\* the calls of the hook that have been issued, and those still in flight
IssuedCalls == {c \in HookCalls : pc[c] # "idle"}

InFlight == {c \in HookCalls : pc[c] = "awaiting"}

\* C29: in the useSetAnalysis hook loading is true whenever a request is
\* in flight, and once no request is in flight the result (or the error)
\* of the hook is the outcome of the analyze() call issued last.
C29_LatestRequestWins ==
  (fn = "useSetAnalysis" /\ DOMAIN pc = HookCalls) =>
    /\ InFlight # {} => result.loading
    /\ (InFlight = {} /\ IssuedCalls # {}) =>
         LET last == CHOOSE c \in IssuedCalls : \A b \in IssuedCalls : b <= c
             outcome == analyzeSetClient(args[last])
         IN IF outcome.ok THEN result.result = outcome.value /\ result.error = Null
            ELSE result.error = Str(outcome.message)

\* a bounded interval with start <= end, or a non-empty finite set
IsBoundedInterval(c) ==
  /\ c.type = "interval" /\ c.interval # Null
  /\ isFinite(c.interval.start) /\ isFinite(c.interval.end)
  /\ Le(c.interval.start, c.interval.end)

IsNonEmptyFinite(c) == c.type = "finite" /\ c.finite # Null /\ Len(c.finite.points) > 0

\* the number of points such a component hands to the diameter calculator
DiameterPointCount(c) == IF IsBoundedInterval(c) THEN 2 ELSE Len(c.finite.points)

RECURSIVE TotalPointCount(_)
TotalPointCount(components) ==
  IF components = <<>> THEN 0
  ELSE DiameterPointCount(Head(components)) + TotalPointCount(Tail(components))

OneDimensionalUnion ==
  /\ Done("calculateAnalysisMetric")
  /\ Len(args.components) > 0
  /\ \A i \in DOMAIN args.components :
       IsBoundedInterval(args.components[i]) \/ IsNonEmptyFinite(args.components[i])
  /\ TotalPointCount(args.components) < 100

\* C30: in the metric-space calculateAnalysis, on a non-empty union of
\* bounded intervals and non-empty finite sets with fewer than 100 points in
\* total, the diameter is sup - inf, and when sup > inf the witness pair is
\* ([inf], [sup]) in one order or the other.
C30_DiameterIsSupMinusInf ==
  OneDimensionalUnion =>
    /\ result.diameter = Sub(result.sup, result.inf)
    /\ Gt(result.sup, result.inf) =>
         {result.diameterInfo.point1, result.diameterInfo.point2} =
           {<<result.inf>>, <<result.sup>>}

\* an interval and a finite set whose union takes its sup from the finite
\* set, above the interval, and its inf from the start of the interval
C30_Witness ==
  /\ OneDimensionalUnion
  /\ Len(args.components) = 2
  /\ \E i, j \in DOMAIN args.components :
       /\ IsBoundedInterval(args.components[i])
       /\ IsNonEmptyFinite(args.components[j])
       /\ Lt(args.components[i].interval.end, result.sup)
       /\ args.components[i].interval.start = result.inf
       /\ \E k \in DOMAIN args.components[j].finite.points :
            args.components[j].finite.points[k] = result.sup
  /\ result.diameter = Sub(result.sup, result.inf)

====
